---- MODULE Spec2Model ----
(***************************************************************************)
(* Offline eBay silver monitor: price memory (EMA store), cross-run dedup  *)
(* state, the scan cycle that ties them together, and the evaluator        *)
(* (melt hits, FMV resolution, prospect score and gate, alert selection).  *)
(*                                                                         *)
(* Money is held in integer cents.  A bumped capture price p*(1+bump) has  *)
(* four decimals and is held in units of 1e-4 dollar ("e4").  With an      *)
(* integer number of cents as input, neither round(bumped, 2) nor          *)
(* round(alpha*bumped + (1-alpha)*ema, 2) ever meets an exact tie          *)
(* (108*p = 50 mod 100 and 432*p + 600*e = 500 mod 1000 have no integer    *)
(* solutions), so rounding to the nearest cent is exact here.              *)
(*                                                                         *)
(* An optional value (Python None) is the empty tuple, a present value v   *)
(* is the one-element tuple <<v>>.                                         *)
(***************************************************************************)
EXTENDS Integers, Sequences, FiniteSets, TLC

VARIABLES
    pc,          \* position of the running process
    priceFile,   \* content of price_store.json
    seenFile,    \* content of seen_hits.json
    store,       \* in-memory price store (dict key -> 5-list)
    call,        \* the operation last invoked and its arguments
    ret,         \* what that operation returned (or that it raised)
    nUpd,        \* number of eligible update_price calls so far
    memHist,     \* per key: the eligible captures behind the in-memory entry
    saveOld,     \* what a load returned before the save in progress began
    saveNew,     \* what a load returns once the save in progress completes
    interrupted, \* the process was killed inside the last save
    now,         \* the clock read by now_ts()
    cycle,       \* main: total_cycles
    filtered,    \* run_once: the listings that passed the filters
    hits,        \* run_once: select_hits(evaluated)
    keys,        \* run_once: the dedupe keys of hits
    seen,        \* run_once: what load_seen_hits() returned
    new_keys,    \* run_once: first component of split_new_hits
    merged,      \* run_once: second component of split_new_hits
    notified,    \* per dedupe key: the number of cycles whose new_hits held it
    persistedSeen,  \* every key some completed save_seen_hits has written
    persistedKeys,  \* every key some completed save_store has written
    mutex        \* a lock is held from each store's load to its save (the
                 \* code takes none: FALSE)

\* what the store driver works on
driverVars == <<call, ret, nUpd, memHist, saveOld, saveNew, interrupted>>

\* what only the scan cycle works on
cycleVars == <<cycle, filtered, hits, keys, seen, new_keys, merged, notified,
               persistedSeen, persistedKeys, mutex>>

vars == <<pc, priceFile, seenFile, store, now, driverVars, cycleVars>>

-----------------------------------------------------------------------------
(* Optional values *)

None == <<>>

Some(v) == <<v>>

Val(o) == o[1]

-----------------------------------------------------------------------------
(* Bounds of the model *)

MaxUpdates == 2

-----------------------------------------------------------------------------
(* Configuration (a_materials/config.py) *)

\* PRICE_CAPTURE_BUMP_PCT = 0.08, in percent
PRICE_CAPTURE_BUMP_PCT == 8

\* EMA_ALPHA = 0.40, in tenths
EMA_ALPHA == 4

PRICE_CAPTURE_ONLY_IF_BIDS == TRUE

-----------------------------------------------------------------------------
(* Schema indices of a price-store entry *)

EMA_PRICE == 1

SAMPLES == 2

LAST_TOTAL_PRICE == 3

LAST_UPDATED == 4

OBSERVERS_TOTAL == 5

\* now_ts()
now_ts == now

EmptyStore == [k \in {} |-> None]

\* round(n/d) to the nearest integer, n >= 0 (no ties arise, see the header)
RoundDiv(n, d) == (2 * n + d) \div (2 * d)

\* round(x, 2) of a value held in e4 units, as cents
Round2(e4) == RoundDiv(e4, 100)

-----------------------------------------------------------------------------
(* price_store.py: EMA core *)

\* update_ema_entry(existing, new_total_price, bid_count, alpha);
\* new_total_price is the bumped price in e4 units, alpha in tenths.
update_ema_entry(existing, new_total_price, bid_count, alpha) ==
    IF existing = None
    THEN <<Round2(new_total_price), 1, Round2(new_total_price), now_ts, bid_count>>
    ELSE LET e == Val(existing)
             \* alpha*new + (1-alpha)*ema, in units of 1e-5 dollar
             ema5    == alpha * new_total_price + (10 - alpha) * (e[EMA_PRICE] * 100)
             samples == e[SAMPLES] + 1
             observers == e[OBSERVERS_TOTAL] + bid_count
         IN  <<RoundDiv(ema5, 1000), samples, Round2(new_total_price), now_ts, observers>>

\* store.get(key)
StoreGet(s, key) == IF key \in DOMAIN s THEN Some(s[key]) ELSE None

\* store[key] = entry
StorePut(s, key, entry) == [k \in DOMAIN s \cup {key} |-> IF k = key THEN entry ELSE s[k]]

\* float(total_price) * (1.0 + bump), cents -> e4
Bumped(total_price) == total_price * (100 + PRICE_CAPTURE_BUMP_PCT)

\* update_price(store, key, total_price, bid_count) of a_materials/price_store.py.
\* key is a string, total_price an optional number of cents, bid_count an
\* optional integer.  The result is the returned flag, whether the call
\* raised, and the store afterwards (the dict is mutated in place).
update_price(s, key, total_price, bid_count) ==
    IF key = ""
    THEN [raised |-> FALSE, val |-> FALSE, store |-> s]
    ELSE IF PRICE_CAPTURE_ONLY_IF_BIDS /\ bid_count = None
    THEN [raised |-> TRUE, val |-> FALSE, store |-> s]      \* int(None): TypeError
    ELSE IF PRICE_CAPTURE_ONLY_IF_BIDS /\ Val(bid_count) < 1
    THEN [raised |-> FALSE, val |-> FALSE, store |-> s]
    ELSE IF total_price = None \/ Val(total_price) <= 0
    THEN [raised |-> FALSE, val |-> FALSE, store |-> s]
    ELSE IF bid_count = None
    THEN [raised |-> TRUE, val |-> FALSE, store |-> s]
    ELSE [raised |-> FALSE, val |-> TRUE,
          store  |-> StorePut(s, key,
                        update_ema_entry(StoreGet(s, key), Bumped(Val(total_price)),
                                         Val(bid_count), EMA_ALPHA))]

-----------------------------------------------------------------------------
(* Sprint-07 HOTFIX price_store.py: write-time eligibility *)

\* The titles the model feeds to the store.  What the source's regular
\* expressions answer on them is tabulated below.
TITLE_OK == "1921 Morgan Dollar VG"

TITLE_LOT == "Lot of 5 Morgan Dollars 1921"

TITLE_HOLED == "1921 Morgan Dollar holed"

TITLE_BLANK == "   "

\* title.strip() is non-empty
StripNonEmpty(title) == title \notin {"", TITLE_BLANK}

\* some rx of _DISQUALIFY_PATTERNS matches title.strip():
\* \blot\b matches TITLE_LOT, \bholed\b matches TITLE_HOLED
MatchesDisqualifyPatterns(title) == title \in {TITLE_LOT, TITLE_HOLED}

\* a gate that forgets the quantity
is_ema_eligible_any_qty(qty, bid_count, title) ==
    IF bid_count < 1 THEN FALSE
    ELSE IF ~StripNonEmpty(title) THEN FALSE
    ELSE IF MatchesDisqualifyPatterns(title) THEN FALSE
    ELSE TRUE

\* _is_ema_eligible(qty=, bid_count=, title=) on integers and a string
_is_ema_eligible(qty, bid_count, title) ==
    IF qty # 1 THEN FALSE
    ELSE IF bid_count < 1 THEN FALSE
    ELSE IF ~StripNonEmpty(title) THEN FALSE
    ELSE IF MatchesDisqualifyPatterns(title) THEN FALSE
    ELSE TRUE

\* an update with the weights of the new price and of the old EMA exchanged
update_ema_entry_swapped(existing, new_total_price, bid_count, alpha) ==
    IF existing = None
    THEN <<Round2(new_total_price), 1, Round2(new_total_price), now_ts, bid_count>>
    ELSE LET e == Val(existing)
             ema5 == (10 - alpha) * new_total_price + alpha * (e[EMA_PRICE] * 100)
         IN  <<RoundDiv(ema5, 1000), e[SAMPLES] + 1, Round2(new_total_price), now_ts,
               e[OBSERVERS_TOTAL] + bid_count>>

\* HOTFIX _update_ema_entry: the same arithmetic as update_ema_entry
_update_ema_entry(existing, new_total_price, bid_count, alpha) ==
    IF existing = None
    THEN <<Round2(new_total_price), 1, Round2(new_total_price), now_ts, bid_count>>
    ELSE LET e == Val(existing)
             prev_ema  == e[EMA_PRICE]
             ema5      == alpha * new_total_price + (10 - alpha) * (prev_ema * 100)
             samples   == e[SAMPLES] + 1
             observers == e[OBSERVERS_TOTAL] + bid_count
         IN  <<RoundDiv(ema5, 1000), samples, Round2(new_total_price), now_ts, observers>>

\* HOTFIX update_price(store, key, total_price, bid_count, *, qty, title).
\* qty, title, total_price and bid_count are optional values.
update_price_hotfix(s, key, total_price, bid_count, qty, title) ==
    IF key = ""
    THEN [raised |-> FALSE, val |-> FALSE, store |-> s]
    ELSE IF qty = None \/ title = None
    THEN [raised |-> FALSE, val |-> FALSE, store |-> s]
    ELSE IF bid_count = None
    THEN [raised |-> TRUE, val |-> FALSE, store |-> s]      \* int(None): TypeError
    ELSE IF ~_is_ema_eligible(Val(qty), Val(bid_count), Val(title))
    THEN [raised |-> FALSE, val |-> FALSE, store |-> s]
    ELSE IF total_price = None \/ Val(total_price) <= 0
    THEN [raised |-> FALSE, val |-> FALSE, store |-> s]
    ELSE [raised |-> FALSE, val |-> TRUE,
          store  |-> StorePut(s, key,
                        _update_ema_entry(StoreGet(s, key), Bumped(Val(total_price)),
                                          Val(bid_count), EMA_ALPHA))]

-----------------------------------------------------------------------------
(* price_store.json on disk *)

\* A file is missing, holds text json.load rejects ("garbage": empty,
\* truncated or otherwise unparseable), or holds a JSON value: an array, or
\* an object mapping keys to raw values.
\* A raw value of the object is a JSON array (t = "list", elements v, bad
\* when some element is not a number), a JSON object (t = "dict", the
\* legacy format, fields d) or anything else (t = "scalar").
NoFields == [f \in {} |-> 0]

RawList(v) == [t |-> "list", v |-> v, d |-> NoFields, bad |-> FALSE]

RawBadList(v) == [t |-> "list", v |-> v, d |-> NoFields, bad |-> TRUE]

RawDict(d) == [t |-> "dict", v |-> <<>>, d |-> d, bad |-> FALSE]

RawScalar == [t |-> "scalar", v |-> <<>>, d |-> NoFields, bad |-> FALSE]

NoObj == [k \in {} |-> RawScalar]

FileMissing == [kind |-> "missing", obj |-> NoObj]

FileGarbage == [kind |-> "garbage", obj |-> NoObj]

FileArray == [kind |-> "array", obj |-> NoObj]

FileObject(obj) == [kind |-> "object", obj |-> obj]

\* v.get(field, default)
DictGet(d, field, default) == IF field \in DOMAIN d THEN d[field] ELSE default

\* the value load_store keeps for raw value v, None when the entry is skipped
LoadEntry(v) ==
    IF v.t = "list" /\ Len(v.v) >= 5
    THEN IF v.bad THEN None
         ELSE Some(<<v.v[1], v.v[2], v.v[3], v.v[4], v.v[5]>>)
    ELSE IF v.t = "dict"
    THEN Some(<<DictGet(v.d, "ema_price", 0),
                DictGet(v.d, "samples", 0),
                DictGet(v.d, "last_total_price", DictGet(v.d, "last_price", 0)),
                DictGet(v.d, "last_updated", 0),
                DictGet(v.d, "observers_total", DictGet(v.d, "last_bid_count", 0))>>)
    ELSE None

\* load_store(path): the returned store, or that the call raised
load_store(file) ==
    IF file.kind = "missing"
    THEN [raised |-> FALSE, store |-> EmptyStore]
    ELSE IF file.kind = "garbage"
    THEN [raised |-> FALSE, store |-> EmptyStore]          \* json.load raised: caught
    ELSE IF file.kind # "object"
    THEN [raised |-> TRUE, store |-> EmptyStore]           \* raw.items(): AttributeError
    ELSE LET kept == {k \in DOMAIN file.obj : LoadEntry(file.obj[k]) # None}
         IN  [raised |-> FALSE,
              store  |-> [k \in kept |-> Val(LoadEntry(file.obj[k]))]]

\* save_store(store, path): the text of the file once every line is written
save_store(s) == FileObject([k \in DOMAIN s |-> RawList(s[k])])

-----------------------------------------------------------------------------
(* state_store.py: seen_hits.json on disk *)

\* The file is missing, garbage, a JSON object (shape "dict" with a list
\* under "hits", "nohits" without such a list), a JSON array (shape "list",
\* the legacy format) or another JSON value (shape "other").  hits is the
\* set of the list's elements; the empty string stands for a falsy element.
SeenMissing == [kind |-> "missing", hits |-> {}]

SeenGarbage == [kind |-> "garbage", hits |-> {}]

SeenDict(elems) == [kind |-> "dict", hits |-> elems]

SeenList(elems) == [kind |-> "list", hits |-> elems]

SeenNoHits == [kind |-> "nohits", hits |-> {}]

SeenOther == [kind |-> "other", hits |-> {}]

\* load_seen_hits(path)
load_seen_hits(file) ==
    IF file.kind = "missing"
    THEN [raised |-> FALSE, keys |-> {}]
    ELSE IF file.kind = "garbage"
    THEN [raised |-> FALSE, keys |-> {}]
    ELSE IF file.kind = "dict"
    THEN [raised |-> FALSE, keys |-> {x \in file.hits : x # ""}]
    ELSE IF file.kind = "list"
    THEN [raised |-> FALSE, keys |-> {x \in file.hits : x # ""}]
    ELSE [raised |-> FALSE, keys |-> {}]

\* save_seen_hits(keys, path): the text of the file once json.dump completes
save_seen_hits(keyset) == SeenDict(keyset)

\* HOTFIX silver_monitor.save_seen_hits: json.dump(sorted(list(seen)))
save_seen_hits_hotfix(keyset) == SeenList(keyset)

\* a split that adds the candidates to the seen set it was given
split_new_hits_in_place(candidate_keys, seen_keys) ==
    [new_keys       |-> {k \in candidate_keys : k \notin seen_keys},
     merged         |-> seen_keys \cup candidate_keys,
     candidate_keys |-> candidate_keys,
     seen_keys      |-> seen_keys \cup candidate_keys]

\* split_new_hits(candidate_keys, seen_keys): the pair returned, and the two
\* argument sets as the call leaves them
split_new_hits(candidate_keys, seen_keys) ==
    [new_keys       |-> {k \in candidate_keys : k \notin seen_keys},
     merged         |-> seen_keys \cup candidate_keys,
     candidate_keys |-> candidate_keys,
     seen_keys      |-> seen_keys]

-----------------------------------------------------------------------------
(* Inputs of the store driver *)

K1 == "Morgan Dollar|1921|P"

K2 == "Peace Dollar|1922|P"

DriverKeys == {"", K1}

DriverPrices == {None, Some(0), Some(301), Some(500)}

DriverBids == {Some(0), Some(1), Some(2)}

DriverQtys == {None, Some(1), Some(2)}

DriverTitles == {None, Some(""), Some(TITLE_OK), Some(TITLE_LOT)}

DedupeKeys == {"itm:101", "itm:102"}

\* price_store.json as the driver may find it
InitPriceFiles ==
    { FileMissing, FileGarbage, FileArray,
      FileObject([k \in {K1, K2} |-> RawList(<<5000, 3, 5000, 0, 6, 7>>)]),
      FileObject([k \in {K2} |-> RawList(<<5000, 0, 5000, 0, 0>>)]),
      FileObject([k \in {K2} |-> RawList(<<5000, 3>>)]),
      FileObject([k \in {K2} |-> RawBadList(<<5000, 3, 5000, 0, 6>>)]),
      FileObject([k \in {K2} |-> RawScalar]),
      FileObject([k \in {K2} |-> RawDict([ema_price |-> 5000, last_price |-> 4800])]) }

\* seen_hits.json as the driver may find it
InitSeenFiles ==
    { SeenMissing, SeenGarbage, SeenNoHits, SeenOther,
      SeenDict({"itm:101", ""}), SeenList({"itm:102"}) }

\* ghost: the eligible captures behind an entry; unknown for an entry that
\* was found on disk
Lineage(known, calls) == [known |-> known, calls |-> calls]

NoHist == [k \in {} |-> Lineage(FALSE, <<>>)]

HistAfterUpdate(h, key, total_price, bid_count) ==
    [k \in DOMAIN h \cup {key} |->
        IF k # key THEN h[k]
        ELSE IF key \in DOMAIN h
             THEN Lineage(h[k].known, Append(h[k].calls, <<total_price, bid_count>>))
             ELSE Lineage(TRUE, <<<<total_price, bid_count>>>>)]

HistAfterLoad(loaded) == [k \in DOMAIN loaded |-> Lineage(FALSE, <<>>)]

Returned(v) == [raised |-> FALSE, val |-> v]

\* ghost: nothing handed to the notifier yet
NobodyNotified == [k \in {} |-> 0]

\* the locals of run_once outside a cycle
CycleLocalsEmpty ==
    /\ filtered = <<>>
    /\ hits = <<>>
    /\ keys = {}
    /\ seen = {}
    /\ new_keys = {}
    /\ merged = {}

Raised == [raised |-> TRUE, val |-> None]

-----------------------------------------------------------------------------
(* The store driver: the public operations of price_store.py and           *)
(* state_store.py called in any order, on any input, with the file system  *)
(* failing and the process being killed at the points where the code       *)
(* touches a file.                                                         *)

InitStore ==
    /\ \/ /\ pc = "price_store"
          /\ priceFile \in InitPriceFiles
          /\ seenFile = SeenMissing
       \/ /\ pc = "state_store"
          /\ priceFile = FileMissing
          /\ seenFile \in InitSeenFiles
    /\ store = EmptyStore
    /\ call = [op |-> "start", failed |-> FALSE]
    /\ ret = Returned(None)
    /\ nUpd = 0
    /\ memHist = NoHist
    /\ saveOld = None
    /\ saveNew = None
    /\ interrupted = FALSE
    /\ now = 0
    /\ CycleLocalsEmpty
    /\ cycle = 0
    /\ notified = NobodyNotified
    /\ persistedSeen = {}
    /\ persistedKeys = {}
    /\ mutex = FALSE

\* price_store.update_price(store, key, total_price, bid_count, qty=, title=)
UpdatePrice(key, total_price, bid_count, qty, title) ==
    LET r == update_price_hotfix(store, key, total_price, bid_count, qty, title) IN
    /\ pc = "price_store"
    /\ r.val => nUpd < MaxUpdates
    /\ call' = [op |-> "update_price", failed |-> FALSE]
    /\ ret' = IF r.raised THEN Raised ELSE Returned(r.val)
    /\ store' = r.store
    /\ nUpd' = IF r.val THEN nUpd + 1 ELSE nUpd
    /\ now' = IF r.val THEN now + 1 ELSE now
    /\ memHist' = IF r.val
                  THEN HistAfterUpdate(memHist, key, Val(total_price), Val(bid_count))
                  ELSE memHist
    /\ interrupted' = FALSE
    /\ UNCHANGED cycleVars
    /\ UNCHANGED <<pc, priceFile, seenFile>>
    /\ saveOld' = None
    /\ saveNew' = None

\* store = price_store.load_store()
LoadStore ==
    LET r == load_store(priceFile) IN
    /\ pc = "price_store"
    /\ call' = [op |-> "load_store", failed |-> FALSE]
    /\ ret' = IF r.raised THEN Raised ELSE Returned(r.store)
    /\ store' = IF r.raised THEN store ELSE r.store
    /\ memHist' = IF r.raised THEN memHist ELSE HistAfterLoad(r.store)
    /\ interrupted' = FALSE
    /\ UNCHANGED cycleVars
    /\ UNCHANGED <<pc, priceFile, seenFile, nUpd, now>>
    /\ saveOld' = None
    /\ saveNew' = None

\* price_store.save_store(store): open(p, "w") fails, the file is untouched
\* and the error propagates
SaveStoreOpenFail ==
    /\ pc = "price_store"
    /\ call' = [op |-> "save_store", failed |-> TRUE]
    /\ ret' = Raised
    /\ interrupted' = FALSE
    /\ UNCHANGED cycleVars
    /\ UNCHANGED <<pc, priceFile, seenFile, store, nUpd, memHist, now>>
    /\ saveOld' = None
    /\ saveNew' = None

\* price_store.save_store(store): open(p, "w") truncates the file
SaveStoreOpen ==
    /\ pc = "price_store"
    /\ pc' = "save_store"
    /\ call' = [op |-> "save_store", failed |-> FALSE]
    /\ saveOld' = Some(priceFile)
    /\ saveNew' = Some(save_store(store))
    /\ priceFile' = FileGarbage
    /\ interrupted' = FALSE
    /\ UNCHANGED cycleVars
    /\ UNCHANGED <<seenFile, store, ret, nUpd, memHist, now>>

\* price_store.save_store(store): every line written, the file closed
SaveStoreFinish ==
    /\ pc = "save_store"
    /\ pc' = "price_store"
    /\ priceFile' = Val(saveNew)
    /\ ret' = Returned(None)
    /\ interrupted' = FALSE
    /\ UNCHANGED cycleVars
    /\ UNCHANGED <<seenFile, store, call, nUpd, memHist, now>>
    /\ saveOld' = None
    /\ saveNew' = None

\* price_store.save_store(store): a write fails, the error propagates and
\* the file keeps the part written so far
SaveStoreWriteFail ==
    /\ pc = "save_store"
    /\ pc' = "price_store"
    /\ call' = [op |-> "save_store", failed |-> TRUE]
    /\ ret' = Raised
    /\ interrupted' = FALSE
    /\ UNCHANGED cycleVars
    /\ UNCHANGED <<priceFile, seenFile, store, nUpd, memHist, now>>
    /\ saveOld' = None
    /\ saveNew' = None

\* state_store.load_seen_hits()
LoadSeenHits ==
    LET r == load_seen_hits(seenFile) IN
    /\ pc = "state_store"
    /\ call' = [op |-> "load_seen_hits", failed |-> FALSE]
    /\ ret' = IF r.raised THEN Raised ELSE Returned(r.keys)
    /\ interrupted' = FALSE
    /\ UNCHANGED cycleVars
    /\ UNCHANGED <<pc, priceFile, seenFile, store, nUpd, memHist, now>>
    /\ saveOld' = None
    /\ saveNew' = None

\* state_store.save_seen_hits(keys): open(p, "w") fails, the error propagates
SaveSeenOpenFail ==
    /\ pc = "state_store"
    /\ call' = [op |-> "save_seen_hits", failed |-> TRUE]
    /\ ret' = Raised
    /\ interrupted' = FALSE
    /\ UNCHANGED cycleVars
    /\ UNCHANGED <<pc, priceFile, seenFile, store, nUpd, memHist, now>>
    /\ saveOld' = None
    /\ saveNew' = None

\* state_store.save_seen_hits(keys): open(p, "w") truncates the file
SaveSeenOpen(keyset) ==
    /\ pc = "state_store"
    /\ pc' = "save_seen_hits"
    /\ call' = [op |-> "save_seen_hits", failed |-> FALSE]
    /\ saveOld' = Some(seenFile)
    /\ saveNew' = Some(save_seen_hits(keyset))
    /\ seenFile' = SeenGarbage
    /\ interrupted' = FALSE
    /\ UNCHANGED cycleVars
    /\ UNCHANGED <<priceFile, store, ret, nUpd, memHist, now>>

\* state_store.save_seen_hits(keys): json.dump done, the file closed
SaveSeenFinish ==
    /\ pc = "save_seen_hits"
    /\ pc' = "state_store"
    /\ seenFile' = Val(saveNew)
    /\ ret' = Returned(None)
    /\ interrupted' = FALSE
    /\ UNCHANGED cycleVars
    /\ UNCHANGED <<priceFile, store, call, nUpd, memHist, now>>
    /\ saveOld' = None
    /\ saveNew' = None

\* state_store.save_seen_hits(keys): a write fails, the error propagates
SaveSeenWriteFail ==
    /\ pc = "save_seen_hits"
    /\ pc' = "state_store"
    /\ call' = [op |-> "save_seen_hits", failed |-> TRUE]
    /\ ret' = Raised
    /\ interrupted' = FALSE
    /\ UNCHANGED cycleVars
    /\ UNCHANGED <<priceFile, seenFile, store, nUpd, memHist, now>>
    /\ saveOld' = None
    /\ saveNew' = None

\* HOTFIX silver_monitor.save_seen_hits(seen): open fails inside the try,
\* "except Exception: pass" returns normally
HotfixSaveSeenOpenFail ==
    /\ pc = "state_store"
    /\ call' = [op |-> "save_seen_hits_hotfix", failed |-> TRUE]
    /\ ret' = Returned(None)
    /\ interrupted' = FALSE
    /\ UNCHANGED cycleVars
    /\ UNCHANGED <<pc, priceFile, seenFile, store, nUpd, memHist, now>>
    /\ saveOld' = None
    /\ saveNew' = None

\* HOTFIX silver_monitor.save_seen_hits(seen): open(p, "w") truncates
HotfixSaveSeenOpen(keyset) ==
    /\ pc = "state_store"
    /\ pc' = "save_seen_hits_hotfix"
    /\ call' = [op |-> "save_seen_hits_hotfix", failed |-> FALSE]
    /\ saveOld' = Some(seenFile)
    /\ saveNew' = Some(save_seen_hits_hotfix(keyset))
    /\ seenFile' = SeenGarbage
    /\ interrupted' = FALSE
    /\ UNCHANGED cycleVars
    /\ UNCHANGED <<priceFile, store, ret, nUpd, memHist, now>>

\* HOTFIX silver_monitor.save_seen_hits(seen): json.dump done
HotfixSaveSeenFinish ==
    /\ pc = "save_seen_hits_hotfix"
    /\ pc' = "state_store"
    /\ seenFile' = Val(saveNew)
    /\ ret' = Returned(None)
    /\ interrupted' = FALSE
    /\ UNCHANGED cycleVars
    /\ UNCHANGED <<priceFile, store, call, nUpd, memHist, now>>
    /\ saveOld' = None
    /\ saveNew' = None

\* HOTFIX silver_monitor.save_seen_hits(seen): a write fails inside the try,
\* "except Exception: pass" returns normally
HotfixSaveSeenWriteFail ==
    /\ pc = "save_seen_hits_hotfix"
    /\ pc' = "state_store"
    /\ call' = [op |-> "save_seen_hits_hotfix", failed |-> TRUE]
    /\ ret' = Returned(None)
    /\ interrupted' = FALSE
    /\ UNCHANGED cycleVars
    /\ UNCHANGED <<priceFile, seenFile, store, nUpd, memHist, now>>
    /\ saveOld' = None
    /\ saveNew' = None

\* The process is killed between open(p, "w") and the end of the writes; a
\* new process starts with nothing in memory.
Interrupt ==
    /\ pc \in {"save_store", "save_seen_hits", "save_seen_hits_hotfix"}
    /\ pc' = IF pc = "save_store" THEN "price_store" ELSE "state_store"
    /\ interrupted' = TRUE
    /\ UNCHANGED cycleVars
    /\ store' = EmptyStore
    /\ memHist' = NoHist
    /\ ret' = Returned(None)
    /\ UNCHANGED <<priceFile, seenFile, call, nUpd, saveOld, saveNew, now>>

NextStore ==
    \/ \E key \in DriverKeys, total_price \in DriverPrices, bid_count \in DriverBids,
          qty \in DriverQtys, title \in DriverTitles :
            UpdatePrice(key, total_price, bid_count, qty, title)
    \/ LoadStore
    \/ SaveStoreOpenFail
    \/ SaveStoreOpen
    \/ SaveStoreFinish
    \/ SaveStoreWriteFail
    \/ LoadSeenHits
    \/ SaveSeenOpenFail
    \/ \E keyset \in SUBSET DedupeKeys : SaveSeenOpen(keyset)
    \/ SaveSeenFinish
    \/ SaveSeenWriteFail
    \/ HotfixSaveSeenOpenFail
    \/ \E keyset \in SUBSET DedupeKeys : HotfixSaveSeenOpen(keyset)
    \/ HotfixSaveSeenFinish
    \/ HotfixSaveSeenWriteFail
    \/ Interrupt

SpecStore == InitStore /\ [][NextStore]_vars

-----------------------------------------------------------------------------
(* The scan cycle: a_materials/silver_monitor.py, hit_engine.py,           *)
(* silver_math.py, numismatic_rules.py, prospect_score.py                  *)

MaxCycles == 3

\* SPOT_PRICE = 62.00, in dollars
SPOT_PRICE == 62

\* PAWN_PAYOUT_PCT = 82.0
PAWN_PAYOUT_PCT == 82

\* NUMISMATIC_PAYOUT_PCT = 60.0
NUMISMATIC_PAYOUT_PCT == 60

\* MIN_MARGIN_PCT = 12.0
MIN_MARGIN_PCT == 12

\* MAX_TIME_HOURS = 0.50, in minutes
MAX_TIME_MINUTES == 30

PRICE_CAPTURE_MAX_MINUTES == 30

\* PROS_MODE = "aggressive"
PROS_MIN_DEALER_MARGIN_PCT == 5

PROS_MIN_SCORE == 60

\* getattr(config, "PROS_MAX_TOTAL", 150.0), in cents
PROS_MAX_TOTAL == 15000

\* ASW_SILVER_DOLLAR = 0.77344, in units of 1e-5 oz
ASW_SILVER_DOLLAR == 77344

\* the sort key of a listing without end_time_ts: 10**18 in the source, here
\* any value above every end time of the model
END_TIME_SENTINEL == 1000000

\* PROS_CAT3_MISPRICE_TOL_PCT = 5.0
PROS_CAT3_MISPRICE_TOL_PCT == 5

PROS_CAT3_MISPRICE_BONUS == 35

PROS_CAT3_REQUIRE_ENDING_SOON == TRUE

PROS_CAT3_MAX_MINUTES == 30

\* BID_OFFSET = 0.00, in cents
BID_OFFSET == 0

TITLE_PEACE == "1922 Peace Dollar"

\* a dollar title without a year: no identity resolves
TITLE_NODATE == "Morgan Silver Dollar"

\* the one identity the static floor table gives a value for
TITLE_CC == "1881-CC Morgan Dollar"

\* a title with slab and grade language ("pcgs", "ms")
TITLE_GRADED == "1921 Morgan Dollar PCGS MS63"

\* parse_ebay_search_html: total = float(item_price) + float(shipping)
TotalPrice(item_price, shipping) == item_price + shipping

\* parse_ebay_search_html: time_left as the page prints it
TimeLeftText(minutes_left) == ToString(minutes_left) \o "m left"

\* A parsed listing card.  Prices are in cents.  end_time_ts is set on the
\* card only when the time-left text parses (has_end_time_ts); it is held
\* in minutes relative to the time.time() of the scan.  quantity is the
\* dataclass default 1 and oz_per_coin the default 0.0, which the parser
\* never changes.
Listing(item_id, title, item_price, bids, minutes_left) ==
    [item_id |-> item_id, title |-> title, item_price |-> item_price,
     shipping |-> 0, total_price |-> Some(TotalPrice(item_price, 0)),
     bids |-> bids, time_left |-> TimeLeftText(minutes_left),
     has_end_time_ts |-> TRUE, end_time_ts |-> Some(minutes_left),
     quantity |-> 1, oz_per_coin |-> 0]

\* getattr(lst, "end_time_ts", None)
EndTimeTs(lst) == IF lst.has_end_time_ts THEN lst.end_time_ts ELSE None

\* the title of TITLE_OK as another card prints it
TITLE_SHOUT == " 1921 MORGAN DOLLAR VG "

\* title.strip().lower()
StripLower(title) ==
    IF title = TITLE_OK THEN "1921 morgan dollar vg"
    ELSE IF title = TITLE_PEACE THEN "1922 peace dollar"
    ELSE IF title = TITLE_HOLED THEN "1921 morgan dollar holed"
    ELSE IF title = TITLE_LOT THEN "lot of 5 morgan dollars 1921"
    ELSE IF title = TITLE_NODATE THEN "morgan silver dollar"
    ELSE IF title = TITLE_CC THEN "1881-cc morgan dollar"
    ELSE IF title = TITLE_GRADED THEN "1921 morgan dollar pcgs ms63"
    ELSE IF title = TITLE_SHOUT THEN "1921 morgan dollar vg"
    ELSE ""

\* A URL is held as its part before the first "?" or "#" (base) and its
\* query string ("" when the URL has none).
Url(base, query) == [base |-> base, query |-> query]

\* the URL as text
UrlText(url) == IF url.query = "" THEN url.base ELSE url.base \o "?" \o url.query

\* url.split("?", 1)[0].split("#", 1)[0]
UrlBase(url) == url.base

\* getattr(lst, "url", None): a Listing has a link but no url attribute;
\* other objects may carry one
GetAttrUrl(lst) == IF "url" \in DOMAIN lst THEN lst.url ELSE None

\* _dedupe_key_from_listing(lst).  On a Listing getattr(lst, "url", "") is
\* "" and the url branch is not taken.
_dedupe_key_from_listing(lst) ==
    IF lst.item_id # None /\ Val(lst.item_id) # ""
    THEN "itm:" \o Val(lst.item_id)
    ELSE IF GetAttrUrl(lst) # None
    THEN "url:" \o UrlBase(Val(GetAttrUrl(lst)))
    ELSE "title:" \o StripLower(lst.title)

\* get_listing_key(listing) of the Sprint-07 HOTFIX silver_monitor.py
get_listing_key(listing) ==
    IF listing.item_id # None /\ Val(listing.item_id) # ""
    THEN "id:" \o Val(listing.item_id)
    ELSE IF GetAttrUrl(listing) # None
    THEN "url:" \o UrlText(Val(GetAttrUrl(listing)))
    ELSE "title:" \o listing.title

RECURSIVE DedupeFrom(_, _, _)
\* the loop of _dedupe_listings_in_run
DedupeFrom(listings, seen_in_run, out) ==
    IF listings = <<>> THEN out
    ELSE LET lst == Head(listings)
             k   == _dedupe_key_from_listing(lst)
         IN  IF k \in seen_in_run
             THEN DedupeFrom(Tail(listings), seen_in_run, out)
             ELSE DedupeFrom(Tail(listings), seen_in_run \cup {k}, Append(out, lst))

_dedupe_listings_in_run(listings) == DedupeFrom(listings, {}, <<>>)

\* _HARD_DISQUALIFY_RE.search(title): \bholed\b matches TITLE_HOLED only
HardDisqualified(title) == title = TITLE_HOLED

\* titles that more than one quantity pattern matches, or whose number is
\* outside the accepted range
TITLE_LOT_ROLL == "Lot of 1 Roll of 20 Morgan Dollars"

TITLE_LOT_COINS == "Lot of 700 Morgan Dollars 20 coins"

TITLE_ROLL_PAREN == "Roll of 20 Morgan Dollars (5)"

TITLE_BIG_LOT == "Lot of 700 Morgan Dollars"

TITLE_COIN_QTY == "Morgan Dollar 1 coin qty 3"

\* the largest quantity extract_quantity_from_title returns
MAX_TITLE_QTY == 600

NoMatch == <<None, None, None, None, None, None, None, None, None>>

\* re.search(pat, t) for each of the nine patterns, in their order
\* ("lot of N", "roll of N", "N coins", "N pieces", "(N)", "N x", "x N",
\* "qty N", "N pcs"): int(m.group(1)), or None when the pattern does not
\* match the title
PatternMatches(title) ==
    IF title = TITLE_LOT THEN [NoMatch EXCEPT ![1] = Some(5)]
    ELSE IF title = TITLE_LOT_ROLL THEN [NoMatch EXCEPT ![1] = Some(1), ![2] = Some(20)]
    ELSE IF title = TITLE_LOT_COINS THEN [NoMatch EXCEPT ![1] = Some(700), ![3] = Some(20)]
    ELSE IF title = TITLE_ROLL_PAREN THEN [NoMatch EXCEPT ![2] = Some(20), ![5] = Some(5)]
    ELSE IF title = TITLE_BIG_LOT THEN [NoMatch EXCEPT ![1] = Some(700)]
    ELSE IF title = TITLE_COIN_QTY THEN [NoMatch EXCEPT ![3] = Some(1), ![8] = Some(3)]
    ELSE NoMatch

RECURSIVE QuantityFrom(_, _)
\* the loop of extract_quantity_from_title from pattern i on
QuantityFrom(matches, i) ==
    IF i > Len(matches) THEN 1
    ELSE IF matches[i] # None /\ 1 < Val(matches[i]) /\ Val(matches[i]) <= MAX_TITLE_QTY
    THEN Val(matches[i])
    ELSE QuantityFrom(matches, i + 1)

\* extract_quantity_from_title(title)
extract_quantity_from_title(title) == QuantityFrom(PatternMatches(title), 1)

\* the filter loop of run_once with min_qty = DEFAULT_MIN_QUANTITY = None and
\* blacklist = DEFAULT_BLACKLIST = []
PassesFilters(lst) ==
    /\ ~HardDisqualified(lst.title)
    /\ EndTimeTs(lst) # None
    /\ Val(EndTimeTs(lst)) >= 0
    /\ Val(EndTimeTs(lst)) <= MAX_TIME_MINUTES

\* any(x in t for x in ["no coins", "coin book", ...]): none of the titles
AccessoryTitle(title) == title \in {}

\* _capture_disqualified(title): the keyword "lot" is in TITLE_LOT, the
\* keywords "pcgs" and "ms" in TITLE_GRADED
_capture_disqualified(title) == title \in {TITLE_LOT, TITLE_GRADED}

\* detect_coin_identity(title): (coin_type, year, mint) or None
detect_coin_identity(title) ==
    IF title \in {TITLE_OK, TITLE_HOLED, TITLE_LOT, TITLE_GRADED}
    THEN Some(<<"Morgan Dollar", 1921, "P">>)
    ELSE IF title = TITLE_PEACE THEN Some(<<"Peace Dollar", 1922, "P">>)
    ELSE IF title = TITLE_CC THEN Some(<<"Morgan Dollar", 1881, "CC">>)
    ELSE None

\* make_benchmark_key(coin_type, year, mint)
make_benchmark_key(coin_type, year, mint) ==
    coin_type \o "|" \o ToString(year) \o "|" \o mint

\* the EMA eligibility gates of the capture loop
CaptureSkipped(lst, capture_seen) ==
    \/ _dedupe_key_from_listing(lst) \in capture_seen
    \/ HardDisqualified(lst.title)
    \/ AccessoryTitle(lst.title)
    \/ _capture_disqualified(lst.title)
    \/ extract_quantity_from_title(lst.title) # 1
    \/ EndTimeTs(lst) = None
    \/ Val(EndTimeTs(lst)) < 0
    \/ Val(EndTimeTs(lst)) > PRICE_CAPTURE_MAX_MINUTES
    \/ (PRICE_CAPTURE_ONLY_IF_BIDS /\ lst.bids < 1)
    \/ detect_coin_identity(lst.title) = None

RECURSIVE CaptureLoop(_, _, _)
\* the capture loop of run_once: the best candidate per benchmark key.
\* capture_price is lst.item_price (a Listing has no price attribute).
CaptureLoop(listings, updates, capture_seen) ==
    IF listings = <<>> THEN updates
    ELSE LET lst == Head(listings) IN
         IF CaptureSkipped(lst, capture_seen)
         THEN CaptureLoop(Tail(listings), updates, capture_seen)
         ELSE LET ident == Val(detect_coin_identity(lst.title))
                  key   == make_benchmark_key(ident[1], ident[2], ident[3])
                  cur   == <<lst.item_price, lst.bids>>
                  lk    == _dedupe_key_from_listing(lst)
              IN  IF key \notin DOMAIN updates
                  THEN CaptureLoop(Tail(listings), StorePut(updates, key, cur),
                                   capture_seen \cup {lk})
                  ELSE IF \/ cur[2] > updates[key][2]
                          \/ (cur[2] = updates[key][2] /\ cur[1] < updates[key][1])
                  THEN CaptureLoop(Tail(listings), StorePut(updates, key, cur),
                                   capture_seen \cup {lk})
                  ELSE CaptureLoop(Tail(listings), updates, capture_seen)

NoUpdates == [k \in {} |-> <<0, 0>>]

RECURSIVE capture_updates(_, _)
\* capture_updates(store, updates): the store afterwards
capture_updates(s, updates) ==
    IF DOMAIN updates = {} THEN s
    ELSE LET k == CHOOSE x \in DOMAIN updates : TRUE
             r == update_price(s, k, Some(updates[k][1]), Some(updates[k][2]))
         IN  capture_updates(r.store, [x \in DOMAIN updates \ {k} |-> updates[x]])

-----------------------------------------------------------------------------
(* silver_math.py: the melt figures of one listing *)

\* enrich_listing_silver_fields: listing.quantity afterwards
EnrichedQuantity(lst) ==
    IF lst.quantity < 1 THEN extract_quantity_from_title(lst.title) ELSE lst.quantity

\* detect_oz_per_coin_from_title(title), in units of 1e-5 oz: every title of
\* the model holds "dollar" or "morgan" and none holds a half-dollar or
\* eagle token
detect_oz_per_coin_from_title(title) == ASW_SILVER_DOLLAR

\* another reading of enrich_listing_silver_fields, which counts the
\* quantity of the title on every call
enrich_adding_title_quantity(lst) ==
    [lst EXCEPT !.quantity = lst.quantity + extract_quantity_from_title(lst.title),
                !.oz_per_coin = detect_oz_per_coin_from_title(lst.title)]

\* enrich_listing_silver_fields(listing): the listing as the call leaves it
\* (the call assigns to the listing's own fields)
enrich_listing_silver_fields(lst) ==
    [lst EXCEPT !.quantity = EnrichedQuantity(lst),
                !.oz_per_coin = IF lst.oz_per_coin <= 0
                                THEN detect_oz_per_coin_from_title(lst.title)
                                ELSE lst.oz_per_coin]

\* a quotient num/den that is kept unevaluated
Ratio(num, den) == <<num, den>>

\* compute_margin_pct(profit, cost): (profit / cost) * 100, as the quotient
compute_margin_pct(profit, cost) ==
    IF cost <= 0 THEN Ratio(0, 1) ELSE Ratio(profit, cost)

\* compute_recommended_max_total(melt_payout, min_margin_pct), in cents;
\* melt_payout is in units of 1e-5 cent
compute_recommended_max_total(melt_payout, min_margin_pct) ==
    LET d == IF min_margin_pct <= 0 THEN 100000 ELSE 1000 * (100 + min_margin_pct)
    IN  (melt_payout + d \div 2) \div d

\* compute_recommended_max_item_only(rec_max_total, shipping)
compute_recommended_max_item_only(rec_max, shipping) ==
    IF rec_max - shipping < 0 THEN 0 ELSE rec_max - shipping

\* calc_silver(listing): the dict, or that float(listing.total_price) raised.
\* melt_value is in units of 1e-5 dollar; melt_payout, profit and
\* profit_at_rec_max are in units of 1e-5 cent; the rest is in cents.
calc_silver(lst) ==
    LET qty         == enrich_listing_silver_fields(lst).quantity
        oz_per      == enrich_listing_silver_fields(lst).oz_per_coin
        total_oz    == qty * oz_per
        melt_value  == total_oz * SPOT_PRICE
        melt_payout == melt_value * PAWN_PAYOUT_PCT
        rec_max     == compute_recommended_max_total(melt_payout, MIN_MARGIN_PCT)
    IN  IF lst.total_price = None
        THEN [raised |-> TRUE, calc |-> [quantity |-> qty]]
        ELSE LET cost   == Val(lst.total_price) + BID_OFFSET
                 profit == melt_payout - cost * 100000
             IN  [raised |-> FALSE,
                  calc   |-> [quantity          |-> qty,
                              oz_per_coin       |-> oz_per,
                              total_oz          |-> total_oz,
                              melt_value        |-> melt_value,
                              melt_payout       |-> melt_payout,
                              effective_cost    |-> cost,
                              profit            |-> profit,
                              margin_pct        |-> compute_margin_pct(profit, cost),
                              rec_max_total     |-> rec_max,
                              rec_max_item      |->
                                  compute_recommended_max_item_only(rec_max, lst.shipping),
                              profit_at_rec_max |-> melt_payout - rec_max * 100000,
                              margin_at_rec_max |->
                                  compute_margin_pct(melt_payout - rec_max * 100000,
                                                     IF rec_max > 0 THEN rec_max ELSE 0)]]

\* n / d rounded to the nearest integer, for n of either sign and d > 0
RoundTo(n, d) == (n + d \div 2) \div d

\* calc_silver(listing) of the Sprint-07 silver_math.py: quantity and
\* oz_per_coin come from the title alone, a missing total_price counts as 0.
\* Units as in calc_silver above, except that the dict holds melt_payout,
\* profit and profit_at_rec_max rounded to cents.  The listing has no
\* ship_price attribute, so shipping is 0.  The margins are left out.
calc_silver_sprint07(lst) ==
    LET total_price == IF lst.total_price = None THEN 0 ELSE Val(lst.total_price)
        qty         == extract_quantity_from_title(lst.title)
        oz_per      == detect_oz_per_coin_from_title(lst.title)
        total_oz    == qty * oz_per
        melt_value  == total_oz * SPOT_PRICE
        melt_payout == melt_value * PAWN_PAYOUT_PCT
        d           == IF MIN_MARGIN_PCT <= 0 THEN 100000 ELSE 1000 * (100 + MIN_MARGIN_PCT)
        \* round(rec_max_unit * float(qty), 2)
        rec_max     == qty * (melt_payout \div d) + RoundTo(qty * (melt_payout % d), d)
    IN  [quantity          |-> qty,
         oz_per_coin       |-> oz_per,
         total_oz          |-> RoundTo(total_oz, 1000),
         melt_value        |-> RoundTo(melt_value, 1000),
         melt_payout       |-> RoundTo(melt_payout, 100000),
         profit            |-> (melt_payout \div 100000 - total_price)
                               + RoundTo(melt_payout % 100000, 100000),
         rec_max_total     |-> rec_max,
         rec_max_item      |-> IF rec_max < 0 THEN 0 ELSE rec_max,
         profit_at_rec_max |-> (melt_payout \div 100000 - rec_max)
                               + RoundTo(melt_payout % 100000, 100000)]

\* silver.get(field)
SilverGet(silver, field) ==
    IF field \in DOMAIN silver THEN Some(silver[field]) ELSE None

-----------------------------------------------------------------------------
(* numismatic_rules.py, numismatic_defaults.py, price_store.py getters and *)
(* hit_engine._resolve_fmv                                                 *)

\* check_numismatic_override(title)
check_numismatic_override(title) ==
    LET ident == detect_coin_identity(title) IN
    IF ident = None THEN None
    ELSE Some([coin_type    |-> Val(ident)[1],
               year         |-> Val(ident)[2],
               mint         |-> Val(ident)[3],
               display_name |-> Val(ident)[1] \o " " \o ToString(Val(ident)[2])
                                \o "-" \o Val(ident)[3]])

\* hit_engine._make_key(coin_type, year, mint)
_make_key(coin_type, year, mint) ==
    coin_type \o "|" \o ToString(year) \o "|" \o mint

\* lookup_ema(store, key)
lookup_ema(s, key) ==
    IF key \in DOMAIN s THEN Some(s[key][EMA_PRICE]) ELSE None

\* lookup_observers(store, key)
lookup_observers(s, key) ==
    IF key \in DOMAIN s THEN Some(s[key][OBSERVERS_TOTAL]) ELSE None

\* get_ema_value_and_observers: (lookup_ema(store, key),
\* lookup_observers(store, key)), loaded being what load_store() came to
EmaAndObservers(loaded, key) ==
    IF loaded.raised
    THEN [raised |-> TRUE, ema |-> None, observers |-> None]
    ELSE [raised |-> FALSE, ema |-> lookup_ema(loaded.store, key),
          observers |-> lookup_observers(loaded.store, key)]

\* get_ema_value_and_observers with a store that was loaded before any
\* capture
get_ema_value_of_empty_store(file, key) == EmaAndObservers(load_store(FileMissing), key)

\* get_ema_value_and_observers(key): store is None, so load_store() runs
get_ema_value_and_observers(file, key) == EmaAndObservers(load_store(file), key)

\* A Python dict key: a str or a tuple.  A str never equals a tuple.
PyStr(s) == [type |-> "str", str |-> s, tuple |-> <<>>]

PyTuple(t) == [type |-> "tuple", str |-> "", tuple |-> t]

\* STATIC_FLOORS, keyed by (coin_type, year, mint, grade) with year a str:
\* the one entry with a value (443.00) and two of the entries set to None
STATIC_FLOORS ==
    [k \in {PyTuple(<<"Morgan Dollar", "1881", "CC", "G">>),
            PyTuple(<<"Morgan Dollar", "1878", "CC", "G">>),
            PyTuple(<<"Peace Dollar", "1921", "P", "G">>)} |->
        IF k = PyTuple(<<"Morgan Dollar", "1881", "CC", "G">>)
        THEN Some(44300) ELSE None]

\* STATIC_NUMISMATIC_DEFAULTS = STATIC_FLOORS
STATIC_NUMISMATIC_DEFAULTS == STATIC_FLOORS

\* STATIC_NUMISMATIC_DEFAULTS.get(key)
StaticGet(key) ==
    IF key \in DOMAIN STATIC_NUMISMATIC_DEFAULTS
    THEN STATIC_NUMISMATIC_DEFAULTS[key]
    ELSE None

\* _resolve_fmv, from the priority 1 lookup on: g is what
\* get_ema_value_and_observers(key) came to, static is
\* STATIC_NUMISMATIC_DEFAULTS.get(key), read only when g has no EMA
FmvPriority(g, static) ==
    IF g.raised
    THEN [raised |-> TRUE, floor |-> None, source |-> None]
    ELSE IF g.ema # None
    THEN IF g.observers # None
         THEN [raised |-> FALSE, floor |-> g.ema,
               source |-> Some("Offline EMA o." \o ToString(Val(g.observers)))]
         ELSE [raised |-> FALSE, floor |-> g.ema, source |-> Some("Offline EMA")]
    ELSE IF static # None
    THEN [raised |-> FALSE, floor |-> static, source |-> Some("Static Default")]
    ELSE [raised |-> FALSE, floor |-> None, source |-> None]

\* _resolve_fmv with the two lookups in the other order: the static table,
\* read under its own key (coin_type, year, mint, "G"), before the price
\* memory
resolve_fmv_static_first(file, coin_type, year, mint) ==
    IF StaticGet(PyTuple(<<coin_type, ToString(year), mint, "G">>)) # None
    THEN [raised |-> FALSE,
          floor  |-> StaticGet(PyTuple(<<coin_type, ToString(year), mint, "G">>)),
          source |-> Some("Static Default")]
    ELSE FmvPriority(get_ema_value_and_observers(file, _make_key(coin_type, year, mint)),
                     None)

\* _resolve_fmv(coin_type, year, mint): (fmv_floor, fmv_source_label), or
\* that load_store raised.  file is price_store.json.
_resolve_fmv(file, coin_type, year, mint) ==
    FmvPriority(get_ema_value_and_observers(file, _make_key(coin_type, year, mint)),
                StaticGet(PyStr(_make_key(coin_type, year, mint))))

-----------------------------------------------------------------------------
(* prospect_score.py *)

\* ((dealer_value - total) / total) * 100 >= pct; dealer_value is in units
\* of 1e-2 cent, total in cents
DealerMarginAtLeast(dealer_value, total, pct) ==
    dealer_value - 100 * total >= pct * total

\* ((fmv_floor - total) / total) * 100 >= pct
FmvGapAtLeast(fmv_floor, total, pct) ==
    (fmv_floor - total) * 100 >= pct * total

\* a keyword gate that lets every title through
NoTitleDisqualified(title) == FALSE

\* _has_any(title, hard_kw): the keyword "holed" (and "hole")
ProsHardDisqualified(title) == title = TITLE_HOLED

\* _matches_any_regex(title, PROS_DISQUALIFY_REGEX): none of the titles
MatchesProsDisqualifyRegex(title) == title \in {}

\* _has_any(title, PROS_HYPE_KEYWORDS): "pcgs", "ms"
HasHypeKeyword(title) == title = TITLE_GRADED

\* _has_any(title, PROS_UNDERDESCRIBED_KEYWORDS): none of the titles
HasUnderdescribedKeyword(title) == title \in {}

\* _has_any(title, PROS_HIGH_GRADE_KEYWORDS): "pcgs", "ms", "ms63"
HasHighGradeKeyword(title) == title = TITLE_GRADED

\* "m left" in tleft or "min" in tleft
HasMinutesText(time_left) ==
    \E m \in 0..(2 * MAX_TIME_MINUTES) : time_left = TimeLeftText(m)

\* the minutes re.search(r"(\d{1,4})\s*m\b", time_left) finds, or None
TimeLeftMinutes(time_left) ==
    IF HasMinutesText(time_left)
    THEN Some(CHOOSE m \in 0..(2 * MAX_TIME_MINUTES) : time_left = TimeLeftText(m))
    ELSE None

\* _minutes_left(listing)
_minutes_left(listing) ==
    LET end_ts == EndTimeTs(listing) IN
    IF end_ts # None /\ Val(end_ts) >= 0
    THEN end_ts
    ELSE TimeLeftMinutes(listing.time_left)

\* total = float(getattr(listing, "total_price", 0.0) or 0.0)
TotalOrZero(listing) ==
    IF listing.total_price = None THEN 0 ELSE Val(listing.total_price)

\* the Category-3 test of score_prospect: premium terms priced like raw
\* the Category-3 test without its ending-soon part
cat3_override_any_time(listing, fmv_floor) ==
    /\ HasHighGradeKeyword(listing.title)
    /\ 100 * TotalOrZero(listing) <= (100 + PROS_CAT3_MISPRICE_TOL_PCT) * fmv_floor

cat3_override(listing, fmv_floor) ==
    /\ HasHighGradeKeyword(listing.title)
    /\ 100 * TotalOrZero(listing) <= (100 + PROS_CAT3_MISPRICE_TOL_PCT) * fmv_floor
    /\ \/ ~PROS_CAT3_REQUIRE_ENDING_SOON
       \/ /\ _minutes_left(listing) # None
          /\ Val(_minutes_left(listing)) <= PROS_CAT3_MAX_MINUTES

ProspectScore(score, reasons) == [score |-> score, reasons |-> reasons]

\* one additive signal: score += pts; reasons.append(reason)
Signal(pts, reason) == [pts |-> pts, reasons |-> <<reason>>]

NoSignal == [pts |-> 0, reasons |-> <<>>]

\* the score left as the signals added it up
ScoreAsAdded(score) == score

\* score_prospect: int(max(0, min(100, round(score))))
ClampScore(score) == IF score < 0 THEN 0 ELSE IF score > 100 THEN 100 ELSE score

\* score_prospect(listing, fmv_floor=, dealer_value=); bonus is
\* config.PROS_CAT3_MISPRICE_BONUS
score_prospect(listing, fmv_floor, dealer_value, bonus) ==
    LET total == TotalOrZero(listing)
        bids  == listing.bids
    IN  IF fmv_floor = None \/ dealer_value = None \/ total <= 0
        THEN ProspectScore(0, <<"missing-anchors">>)
        ELSE IF ProsHardDisqualified(listing.title)
        THEN ProspectScore(0, <<"pros-hard-disqualify-keyword">>)
        ELSE IF MatchesProsDisqualifyRegex(listing.title)
        THEN ProspectScore(0, <<"pros-hard-disqualify-regex">>)
        ELSE
        LET dv     == Val(dealer_value)
            fmv    == Val(fmv_floor)
            margin == IF DealerMarginAtLeast(dv, total, 75)
                      THEN Signal(25, "huge-dealer-margin")
                      ELSE IF DealerMarginAtLeast(dv, total, 50)
                      THEN Signal(18, "dealer-margin>=50")
                      ELSE IF DealerMarginAtLeast(dv, total, 35)
                      THEN Signal(10, "dealer-margin>=35")
                      ELSE IF DealerMarginAtLeast(dv, total, 20)
                      THEN Signal(4, "dealer-margin>=20")
                      ELSE Signal(0 - 20, "thin-dealer-margin")
            gap    == IF FmvGapAtLeast(fmv, total, 100) THEN Signal(10, "fmv-gap>=100")
                      ELSE IF FmvGapAtLeast(fmv, total, 50) THEN Signal(6, "fmv-gap>=50")
                      ELSE NoSignal
            bidpts == IF bids <= 0 THEN Signal(4, "unnoticed(0-bids)")
                      ELSE IF bids <= 2 THEN Signal(7, "few-bids")
                      ELSE IF bids <= 10 THEN Signal(4, "some-bids")
                      ELSE Signal(1, "many-bids")
            hype   == IF HasHypeKeyword(listing.title)
                      THEN Signal(0 - 18, "hype-language") ELSE NoSignal
            under  == IF HasUnderdescribedKeyword(listing.title)
                      THEN Signal(12, "under-described") ELSE NoSignal
            high   == IF HasHighGradeKeyword(listing.title)
                      THEN Signal(0 - 14, "high-grade-signals") ELSE NoSignal
            cat3   == IF cat3_override(listing, fmv)
                      THEN Signal(IF bonus > 0 THEN bonus ELSE 0,
                                  "premium-terms-priced-like-raw")
                      ELSE NoSignal
            soon   == IF HasMinutesText(listing.time_left)
                      THEN Signal(3, "ending-soon") ELSE NoSignal
            score  == 50 + margin.pts + gap.pts + bidpts.pts + hype.pts + under.pts
                      + high.pts + cat3.pts + soon.pts
        IN  ProspectScore(ClampScore(score),
                          margin.reasons \o gap.reasons \o bidpts.reasons
                          \o hype.reasons \o under.reasons \o high.reasons
                          \o cat3.reasons \o soon.reasons)

-----------------------------------------------------------------------------
(* hit_engine.py *)

\* is_hit with the comparison made strict
is_hit_strict(lst, silver) ==
    LET rec_max == SilverGet(silver, "rec_max_total") IN
    /\ rec_max # None
    /\ Val(lst.total_price) < Val(rec_max)

\* evaluate_listings: is_hit = bool(rec_max_total is not None and
\* lst.total_price <= rec_max_total)
is_hit(lst, silver) ==
    LET rec_max == SilverGet(silver, "rec_max_total") IN
    /\ rec_max # None
    /\ Val(lst.total_price) <= Val(rec_max)

\* evaluate_listings: the last two conditions of the PROS gate, ps being
\* what score_prospect returned: (dealer_margin_pct >= min_margin or
\* cat3_override) and ps.score >= min_score
PassesProspectScore(lst, dealer_value, ps) ==
    /\ \/ DealerMarginAtLeast(Val(dealer_value), Val(lst.total_price),
                              PROS_MIN_DEALER_MARGIN_PCT)
       \/ \E i \in 1..Len(ps.reasons) : ps.reasons[i] = "premium-terms-priced-like-raw"
    /\ ps.score >= PROS_MIN_SCORE

\* the PROS gate without the score threshold
is_prospect_any_score(lst, fmv_floor, dealer_value, bonus) ==
    /\ dealer_value # None
    /\ fmv_floor # None
    /\ TotalOrZero(lst) > 0
    /\ Val(lst.total_price) <= PROS_MAX_TOTAL
    /\ \/ DealerMarginAtLeast(Val(dealer_value), Val(lst.total_price),
                              PROS_MIN_DEALER_MARGIN_PCT)
       \/ \E i \in 1..Len(score_prospect(lst, fmv_floor, dealer_value, bonus).reasons) :
              score_prospect(lst, fmv_floor, dealer_value, bonus).reasons[i]
                  = "premium-terms-priced-like-raw"

\* evaluate_listings: the PROS gate, given what the override resolved to
is_prospect(lst, fmv_floor, dealer_value, bonus) ==
    /\ dealer_value # None
    /\ fmv_floor # None
    /\ TotalOrZero(lst) > 0
    /\ Val(lst.total_price) <= PROS_MAX_TOTAL
    /\ PassesProspectScore(lst, dealer_value,
                           score_prospect(lst, fmv_floor, dealer_value, bonus))

\* evaluate_listings: fmv_floor, fmv_source = _resolve_fmv(...) when the
\* title resolves to an override, (None, None) otherwise
ResolveOverride(override, file) ==
    IF override = None
    THEN [raised |-> FALSE, floor |-> None, source |-> None]
    ELSE _resolve_fmv(file, Val(override).coin_type, Val(override).year,
                      Val(override).mint)

\* evaluate_listings: dealer_value = fmv_floor * NUMISMATIC_PAYOUT_PCT / 100,
\* in units of 1e-2 cent
DealerValue(fmv_floor) ==
    IF fmv_floor = None THEN None ELSE Some(Val(fmv_floor) * NUMISMATIC_PAYOUT_PCT)

\* evaluate_listings: the display name of the override, or None
OverrideName(override) ==
    IF override = None THEN None ELSE Some(Val(override).display_name)

\* evaluate_listings: Evaluated(listing=, is_hit=, is_prospect=,
\* numismatic_override=, silver_calc=enriched_calc).  dealer_value and
\* dealer_profit are in units of 1e-2 cent.
Evaluated(lst, calc, name, fmv, dealer_value, prospect) ==
    [listing     |-> lst,
     is_hit      |-> is_hit(lst, calc),
     is_prospect |-> prospect,
     numismatic_override |-> name,
     silver_calc |->
         [quantity          |-> calc.quantity,
          oz_per_coin       |-> calc.oz_per_coin,
          total_oz          |-> calc.total_oz,
          melt_value        |-> calc.melt_value,
          melt_payout       |-> calc.melt_payout,
          profit            |-> calc.profit,
          margin_pct        |-> calc.margin_pct,
          rec_max_total     |-> calc.rec_max_total,
          rec_max_item      |-> calc.rec_max_item,
          profit_at_rec_max |-> calc.profit_at_rec_max,
          margin_at_rec_max |-> calc.margin_at_rec_max,
          numismatic_override |-> name,
          fmv_floor         |-> fmv.floor,
          fmv_source        |-> fmv.source,
          dealer_value      |-> dealer_value,
          dealer_profit     |->
              IF dealer_value = None THEN None
              ELSE Some(Val(dealer_value) - 100 * Val(lst.total_price)),
          dealer_margin_pct |->
              IF dealer_value = None \/ Val(lst.total_price) <= 0 THEN None
              ELSE Some(Ratio(Val(dealer_value) - 100 * Val(lst.total_price),
                              100 * Val(lst.total_price))),
          is_prospect       |-> prospect]]

\* evaluate_listings: the body of the loop once calc_silver and
\* _resolve_fmv have run: the Evaluated record, or that one of them raised
EvaluateResolved(lst, silver, override, fmv, bonus) ==
    IF silver.raised \/ fmv.raised
    THEN [raised |-> TRUE, e |-> None]
    ELSE [raised |-> FALSE,
          e |-> Evaluated(lst, silver.calc, OverrideName(override), fmv,
                          DealerValue(fmv.floor),
                          is_prospect(lst, fmv.floor, DealerValue(fmv.floor), bonus))]

\* evaluate_listings: the body of the loop for one listing
EvaluateOne(lst, file, bonus) ==
    EvaluateResolved(enrich_listing_silver_fields(lst), calc_silver(lst),
                     check_numismatic_override(lst.title),
                     ResolveOverride(check_numismatic_override(lst.title), file),
                     bonus)

\* the key of evaluated.sort: getattr(e.listing, "end_time_ts", 10**18)
SortKey(e) ==
    IF e.listing.has_end_time_ts THEN e.listing.end_time_ts
    ELSE Some(END_TIME_SENTINEL)

RECURSIVE SortedByEnd(_)
\* evaluated.sort(key=...): a stable sort, here by insertion
SortedByEnd(evaluated) ==
    IF evaluated = <<>> THEN <<>>
    ELSE LET n    == Len(evaluated)
             last == evaluated[n]
             init == SortedByEnd(SubSeq(evaluated, 1, n - 1))
             le   == SelectSeq(init, LAMBDA e : Val(SortKey(e)) <= Val(SortKey(last)))
             gt   == SelectSeq(init, LAMBDA e : Val(SortKey(e)) > Val(SortKey(last)))
         IN  le \o <<last>> \o gt

\* evaluate_listings: evaluated.sort(...) and the return, each being the
\* outcome of the loop body for every listing in turn
SortEvaluated(each) ==
    IF \E i \in 1..Len(each) : each[i].raised
    THEN [raised |-> TRUE, val |-> <<>>]
    ELSE IF Len(each) >= 2 /\ \E i \in 1..Len(each) : SortKey(each[i].e) = None
    THEN [raised |-> TRUE, val |-> <<>>]
    ELSE [raised |-> FALSE, val |-> SortedByEnd([i \in 1..Len(each) |-> each[i].e])]

\* evaluate_listings(listings): the sorted Evaluated records, or that the
\* call raised.  Comparing a key None with any key is a TypeError, and
\* list.sort compares every element of a list of two or more.
evaluate_listings(listings, file, bonus) ==
    SortEvaluated([i \in 1..Len(listings) |-> EvaluateOne(listings[i], file, bonus)])

\* select_hits: what one pass of the loop appends to out for the record e
SelectOne(e) ==
    IF e.is_hit THEN <<e>>
    ELSE IF e.is_prospect THEN <<e>>
    ELSE IF e.silver_calc.is_prospect THEN <<e>>
    ELSE <<>>

\* one pass of the loop of select_hits with the two continue statements
\* left out
SelectOneNoContinue(e) ==
    (IF e.is_hit THEN <<e>> ELSE <<>>)
    \o (IF e.is_prospect THEN <<e>> ELSE <<>>)
    \o (IF e.silver_calc.is_prospect THEN <<e>> ELSE <<>>)

RECURSIVE select_hits_no_continue(_)
\* select_hits with the two continue statements left out
select_hits_no_continue(evaluated) ==
    IF evaluated = <<>> THEN <<>>
    ELSE SelectOneNoContinue(Head(evaluated))
         \o select_hits_no_continue(Tail(evaluated))

RECURSIVE select_hits(_)
\* select_hits(evaluated)
select_hits(evaluated) ==
    IF evaluated = <<>> THEN <<>>
    ELSE SelectOne(Head(evaluated)) \o select_hits(Tail(evaluated))

\* {_dedupe_key_from_listing(e.listing) for e in hits}
KeysOf(evaluated) ==
    {_dedupe_key_from_listing(evaluated[i].listing) : i \in 1..Len(evaluated)}

\* [e for e in hits if _dedupe_key_from_listing(e.listing) in new_keys]
NewHits(evaluated, keyset) ==
    SelectSeq(evaluated, LAMBDA e : _dedupe_key_from_listing(e.listing) \in keyset)

\* main: the notifier receives new_hits; the count per dedupe key
NotifiedAfter(n, handed) ==
    [k \in DOMAIN n \cup handed |->
        (IF k \in DOMAIN n THEN n[k] ELSE 0) + (IF k \in handed THEN 1 ELSE 0)]

-----------------------------------------------------------------------------
(* Inputs of the scan cycle *)

ListingTitles == {TITLE_OK, TITLE_PEACE}

ListingPrices == {2500, 4000, 9000}

\* the listings the saved pages may show: cards without an item id at every
\* price, with two bids and ten minutes left; one without bids; one with an
\* item id; a holed coin; one that ends outside the time window
Listings ==
    { Listing(None, title, item_price, 2, 10) :
        title \in ListingTitles, item_price \in ListingPrices }
    \cup { Listing(None, TITLE_OK, 4000, 0, 10),
           Listing(Some("101"), TITLE_OK, 2500, 2, 10),
           Listing(Some("101"), TITLE_HOLED, 2500, 2, 10),
           Listing(None, TITLE_OK, 2500, 2, 45) }

\* what the pages of one scan parse to: at most two cards
Batches ==
    {<<>>} \cup {<<a>> : a \in Listings} \cup {<<a, b>> : a \in Listings, b \in Listings}

-----------------------------------------------------------------------------
(* The scan cycle as main() runs it: run_once after run_once, the file     *)
(* system failing inside a save after open(p, "w") has truncated the file. *)

Init ==
    /\ pc = "idle"
    /\ priceFile = FileMissing
    /\ seenFile = SeenMissing
    /\ store = EmptyStore
    /\ now = 0
    /\ call = [op |-> "start", failed |-> FALSE]
    /\ ret = Returned(None)
    /\ nUpd = 0
    /\ memHist = NoHist
    /\ saveOld = None
    /\ saveNew = None
    /\ interrupted = FALSE
    /\ CycleLocalsEmpty
    /\ cycle = 0
    /\ notified = NobodyNotified
    /\ persistedSeen = {}
    /\ persistedKeys = {}
    /\ mutex = FALSE

\* run_once leaves: its locals are gone
LocalsDropped ==
    /\ store' = EmptyStore
    /\ filtered' = <<>>
    /\ hits' = <<>>
    /\ keys' = {}
    /\ seen' = {}
    /\ new_keys' = {}
    /\ merged' = {}

\* run_once finds no silver HTML file and returns had_files = False
RunOnceNoFiles ==
    /\ pc = "idle"
    /\ cycle < MaxCycles
    /\ cycle' = cycle + 1
    /\ now' = now + 1
    /\ UNCHANGED <<pc, priceFile, seenFile, store, driverVars, mutex, filtered, hits, keys,
                   seen, new_keys, merged, notified, persistedSeen, persistedKeys>>

\* run_once from the parse to the open(p, "w") of save_store: in-run dedupe,
\* filters, load_store, the capture loop, capture_updates
RunOnceCapture(batch) ==
    LET listings_all == _dedupe_listings_in_run(batch)
        kept         == SelectSeq(listings_all, PassesFilters)
        loaded       == load_store(priceFile)
        updates      == CaptureLoop(kept, NoUpdates, {})
    IN  /\ pc = "idle"
        /\ cycle < MaxCycles
        /\ cycle' = cycle + 1
        /\ now' = now + 1
        /\ IF loaded.raised
           THEN /\ pc' = "idle"                 \* main prints [ERROR]
                /\ UNCHANGED <<priceFile, store, filtered>>
           ELSE IF DOMAIN updates # {}
           THEN /\ pc' = "cycle_save_store"
                /\ store' = capture_updates(loaded.store, updates)
                /\ filtered' = kept
                /\ priceFile' = FileGarbage     \* open(p, "w") truncates
           ELSE /\ pc' = "cycle_evaluate"
                /\ store' = loaded.store
                /\ filtered' = kept
                /\ UNCHANGED priceFile
        /\ UNCHANGED <<seenFile, driverVars, mutex, hits, keys, seen, new_keys, merged,
                       notified, persistedSeen, persistedKeys>>

\* save_store writes every line and closes the file
RunOnceSaveStore ==
    /\ pc = "cycle_save_store"
    /\ pc' = "cycle_evaluate"
    /\ priceFile' = save_store(store)
    /\ persistedKeys' = persistedKeys \cup DOMAIN store
    /\ UNCHANGED <<seenFile, store, now, driverVars, mutex, cycle, filtered, hits, keys, seen,
                   new_keys, merged, notified, persistedSeen>>

\* a write of save_store raises: run_once propagates it, main prints [ERROR]
\* and sleeps until the next cycle
RunOnceSaveStoreFails ==
    /\ pc = "cycle_save_store"
    /\ pc' = "idle"
    /\ LocalsDropped
    /\ UNCHANGED <<priceFile, seenFile, now, driverVars, mutex, cycle, notified,
                   persistedSeen, persistedKeys>>

\* run_once lines 308-320: dedupe, evaluate_listings, select_hits,
\* load_seen_hits, the keys of the hits
RunOnceEvaluate ==
    LET deduped   == _dedupe_listings_in_run(filtered)
        evaluated == evaluate_listings(deduped, priceFile, PROS_CAT3_MISPRICE_BONUS)
        selected  == select_hits(evaluated.val)
    IN  /\ pc = "cycle_evaluate"
        /\ IF evaluated.raised
           THEN /\ pc' = "idle"                 \* main prints [ERROR]
                /\ LocalsDropped
           ELSE /\ pc' = "cycle_split"
                /\ hits' = selected
                /\ seen' = load_seen_hits(seenFile).keys
                /\ keys' = KeysOf(selected)
                /\ UNCHANGED <<store, filtered, new_keys, merged>>
        /\ UNCHANGED <<priceFile, seenFile, now, driverVars, mutex, cycle,
                       notified, persistedSeen, persistedKeys>>

\* run_once lines 321-324: split_new_hits, then save_seen_hits opens the
\* file with "w"
RunOnceSplit ==
    LET r == split_new_hits(keys, seen) IN
    /\ pc = "cycle_split"
    /\ pc' = "cycle_save_seen"
    /\ new_keys' = r.new_keys
    /\ merged' = r.merged
    /\ keys' = r.candidate_keys
    /\ seen' = r.seen_keys
    /\ seenFile' = SeenGarbage                  \* open(p, "w") truncates
    /\ UNCHANGED <<priceFile, store, now, driverVars, mutex, cycle, filtered, hits,
                   notified, persistedSeen, persistedKeys>>

\* save_seen_hits completes, run_once returns new_hits and main hands them
\* to the notifier
RunOnceSaveSeen ==
    /\ pc = "cycle_save_seen"
    /\ pc' = "idle"
    /\ seenFile' = save_seen_hits(merged)
    /\ persistedSeen' = persistedSeen \cup merged
    /\ notified' = NotifiedAfter(notified, KeysOf(NewHits(hits, new_keys)))
    /\ LocalsDropped
    /\ UNCHANGED <<priceFile, now, driverVars, mutex, cycle, persistedKeys>>

\* json.dump of save_seen_hits raises: run_once propagates it, main prints
\* [ERROR]; nothing is handed to the notifier
RunOnceSaveSeenFails ==
    /\ pc = "cycle_save_seen"
    /\ pc' = "idle"
    /\ LocalsDropped
    /\ UNCHANGED <<priceFile, seenFile, now, driverVars, mutex, cycle, notified,
                   persistedSeen, persistedKeys>>

Next ==
    \/ RunOnceNoFiles
    \/ \E batch \in Batches : RunOnceCapture(batch)
    \/ RunOnceSaveStore
    \/ RunOnceSaveStoreFails
    \/ RunOnceEvaluate
    \/ RunOnceSplit
    \/ RunOnceSaveSeen
    \/ RunOnceSaveSeenFails

Spec == Init /\ [][Next]_vars

-----------------------------------------------------------------------------
(* Sprint-07 HOTFIX silver_monitor.py: capture_ema_updates *)

\* a listing dict as capture_ema_updates reads it; total_price in cents,
\* end_time_ts in minutes after the time.time() of the call
ListingDict(title, total_price, bids, qty, end_time_ts) ==
    [title |-> title, total_price |-> total_price, bids |-> bids, qty |-> qty,
     end_time_ts |-> end_time_ts]

\* title.strip()[:100]
StripTitle(title) ==
    IF title = TITLE_BLANK THEN ""
    ELSE IF title = TITLE_SHOUT THEN "1921 MORGAN DOLLAR VG"
    ELSE title

\* the gates of the loop that come before the key
CaptureGated(listing) ==
    \/ listing.qty # 1
    \/ listing.bids < 1
    \/ listing.total_price = None
    \/ Val(listing.total_price) <= 0
    \/ /\ listing.end_time_ts # None
       /\ \/ Val(listing.end_time_ts) > PRICE_CAPTURE_MAX_MINUTES
          \/ Val(listing.end_time_ts) < 0

RECURSIVE CaptureEmaLoop(_, _, _)
\* the loop of capture_ema_updates: the store afterwards
CaptureEmaLoop(listings, s, captured_keys) ==
    IF listings = <<>> THEN s
    ELSE LET listing == Head(listings)
             key     == StripTitle(listing.title)
         IN  IF CaptureGated(listing) \/ key \in captured_keys
             THEN CaptureEmaLoop(Tail(listings), s, captured_keys)
             ELSE LET r == update_price_hotfix(s, key, listing.total_price,
                                               Some(listing.bids), Some(listing.qty),
                                               Some(listing.title))
                  IN  IF r.val
                      THEN CaptureEmaLoop(Tail(listings), r.store, captured_keys \cup {key})
                      ELSE CaptureEmaLoop(Tail(listings), s, captured_keys)

\* capture_ema_updates(listings, store): the store afterwards
capture_ema_updates(listings, s) ==
    IF ~PRICE_CAPTURE_ONLY_IF_BIDS THEN s ELSE CaptureEmaLoop(listings, s, {})

-----------------------------------------------------------------------------
(* The evaluator called as a library: evaluate_listings, select_hits,      *)
(* _resolve_fmv, score_prospect, calc_silver, the dedupe-key functions,    *)
(* extract_quantity_from_title and capture_ema_updates on any input a      *)
(* caller may pass, with price_store.json in any state.  The functions     *)
(* keep no state between calls, so a behaviour is one call, or a call      *)
(* followed by a second one on its result or on the same input             *)
(* (evaluate_listings then select_hits as run_once chains them,            *)
(* calc_silver twice, score_prospect again after the clock has moved).     *)

KCC == "Morgan Dollar|1881|CC"

\* a listing as a caller of evaluate_listings may build it
EvalListing(title, total_price, shipping, bids, has_end, end_time_ts, time_left, quantity) ==
    [item_id |-> None, title |-> title,
     item_price |-> IF total_price = None THEN 0 ELSE Val(total_price) - shipping,
     shipping |-> shipping, total_price |-> total_price, bids |-> bids,
     time_left |-> time_left, has_end_time_ts |-> has_end,
     end_time_ts |-> end_time_ts, quantity |-> quantity, oz_per_coin |-> 0]

\* listings that end in ten minutes
EndsSoon(title, total_price, bids) ==
    EvalListing(title, total_price, 0, bids, TRUE, Some(10), TimeLeftText(10), 1)

\* listings with distinct end times, one without end_time_ts
SortListings ==
    { EndsSoon(TITLE_OK, Some(2500), 2),
      EvalListing(TITLE_PEACE, Some(2500), 500, 2, TRUE, Some(45), TimeLeftText(45), 1),
      EvalListing(TITLE_NODATE, Some(2500), 0, 2, TRUE, Some(20), "", 1),
      EvalListing(TITLE_PEACE, Some(9000), 0, 2, FALSE, None, "", 1) }

\* the listings a caller passes: those above, one priced exactly at the
\* recommended maximum, one without bids, prices of zero and None, the
\* 1881-CC identity below and above PROS_MAX_TOTAL, graded titles, a holed
\* coin, a lot whose quantity comes from its title, and one whose
\* end_time_ts is None
EvalListings ==
    SortListings
    \cup { EndsSoon(TITLE_OK, Some(3511), 2),
           EndsSoon(TITLE_OK, Some(4000), 0),
           EndsSoon(TITLE_OK, Some(0), 2),
           EndsSoon(TITLE_OK, None, 2),
           EndsSoon(TITLE_CC, Some(10000), 2),
           EndsSoon(TITLE_CC, Some(20000), 2),
           EndsSoon(TITLE_GRADED, Some(5000), 2),
           EndsSoon(TITLE_HOLED, Some(2500), 2),
           EvalListing(TITLE_GRADED, Some(9000), 0, 11, TRUE, Some(45), "", 1),
           EvalListing(TITLE_LOT, Some(15000), 0, 2, TRUE, Some(10), TimeLeftText(10), 0),
           EvalListing(TITLE_PEACE, Some(2500), 0, 2, TRUE, None, "", 1) }

\* the batches passed to evaluate_listings: up to two of any listing, three
\* of those with distinct end times
EvalBatches ==
    {<<>>} \cup {<<a>> : a \in EvalListings}
    \cup {<<a, b>> : a \in EvalListings, b \in EvalListings}
    \cup {<<a, b, c>> : a \in SortListings, b \in SortListings, c \in SortListings}

\* price_store.json as a caller may find it
EvalPriceFiles ==
    { FileMissing, FileGarbage, FileArray,
      FileObject([k \in {K1} |-> RawList(<<8000, 3, 8000, 0, 6>>)]),
      FileObject([k \in {K1, KCC} |->
                    IF k = K1 THEN RawList(<<5000, 1, 5000, 0, 2>>)
                    ELSE RawList(<<50000, 3, 50000, 0, 7>>)]),
      FileObject([k \in {KCC} |-> RawList(<<50000, 3>>)]) }

\* values of config.PROS_CAT3_MISPRICE_BONUS
Bonuses == {0 - 10, PROS_CAT3_MISPRICE_BONUS, 200}

\* identities passed to _resolve_fmv
Identities ==
    { <<"Morgan Dollar", 1921, "P">>, <<"Morgan Dollar", 1881, "CC">>,
      <<"Peace Dollar", 1922, "P">>, <<"Peace Dollar", 1921, "P">> }

\* anchors passed to score_prospect
FmvFloors == {None, Some(2700), Some(8000), Some(50000)}

InitEval ==
    /\ pc = "hit_engine"
    /\ priceFile \in EvalPriceFiles
    /\ seenFile = SeenMissing
    /\ store = EmptyStore
    /\ call = [op |-> "start"]
    /\ ret = Returned(None)
    /\ nUpd = 0
    /\ memHist = NoHist
    /\ saveOld = None
    /\ saveNew = None
    /\ interrupted = FALSE
    /\ now = 0
    /\ CycleLocalsEmpty
    /\ cycle = 0
    /\ notified = NobodyNotified
    /\ persistedSeen = {}
    /\ persistedKeys = {}
    /\ mutex = FALSE

\* what a call of the evaluator leaves alone
EvalFrame ==
    UNCHANGED <<priceFile, seenFile, store, now, nUpd, memHist, saveOld, saveNew,
                interrupted, cycleVars>>

\* evaluated = hit_engine.evaluate_listings(listings)
EvaluateListings(listings, bonus) ==
    LET r == evaluate_listings(listings, priceFile, bonus) IN
    /\ pc = "hit_engine"
    /\ pc' = "evaluated"
    /\ call' = [op |-> "evaluate_listings", listings |-> listings, bonus |-> bonus]
    /\ ret' = IF r.raised THEN Raised ELSE Returned(r.val)
    /\ EvalFrame

\* hits = hit_engine.select_hits(evaluated), evaluated being what
\* evaluate_listings has just returned
SelectHits ==
    /\ pc = "evaluated"
    /\ pc' = "returned"
    /\ ~ret.raised
    /\ call' = [op |-> "select_hits", evaluated |-> ret.val]
    /\ ret' = Returned(select_hits(ret.val))
    /\ EvalFrame

\* hit_engine._resolve_fmv(coin_type, year, mint)
ResolveFmv(coin_type, year, mint) ==
    LET r == _resolve_fmv(priceFile, coin_type, year, mint) IN
    /\ pc = "hit_engine"
    /\ pc' = "returned"
    /\ call' = [op |-> "_resolve_fmv", coin_type |-> coin_type, year |-> year,
                mint |-> mint]
    /\ ret' = IF r.raised THEN Raised ELSE Returned(<<r.floor, r.source>>)
    /\ EvalFrame

\* prospect_score.score_prospect(listing, fmv_floor=, dealer_value=) under a
\* configuration with PROS_CAT3_MISPRICE_BONUS = bonus
ScoreProspect(listing, fmv_floor, dealer_value, bonus) ==
    /\ pc = "hit_engine"
    /\ pc' = "returned"
    /\ call' = [op |-> "score_prospect", listing |-> listing, fmv_floor |-> fmv_floor,
                dealer_value |-> dealer_value, bonus |-> bonus]
    /\ ret' = Returned(score_prospect(listing, fmv_floor, dealer_value, bonus))
    /\ EvalFrame

\* silver_math.calc_silver(listing); the listing is left as
\* enrich_listing_silver_fields leaves it
CalcSilver(listing) ==
    LET r == calc_silver(listing) IN
    /\ pc = "hit_engine"
    /\ pc' = "calc_silver"
    /\ call' = [op |-> "calc_silver", passed |-> listing,
                listing |-> enrich_listing_silver_fields(listing)]
    /\ ret' = IF r.raised THEN Raised ELSE Returned(r.calc)
    /\ EvalFrame

\* calc_silver(listing) once more on the same Listing object
CalcSilverAgain ==
    LET r == calc_silver(call.listing) IN
    /\ pc = "calc_silver"
    /\ pc' = "returned"
    /\ call' = [op |-> "calc_silver_again", passed |-> call.passed,
                listing |-> enrich_listing_silver_fields(call.listing),
                first |-> ret]
    /\ ret' = IF r.raised THEN Raised ELSE Returned(r.calc)
    /\ EvalFrame

\* calc_silver(listing) of the Sprint-07 silver_math.py
CalcSilverSprint07(listing) ==
    /\ pc = "hit_engine"
    /\ pc' = "returned"
    /\ call' = [op |-> "calc_silver_sprint07", passed |-> listing, listing |-> listing]
    /\ ret' = Returned(calc_silver_sprint07(listing))
    /\ EvalFrame

\* the objects whose key is asked for: with and without an item identity,
\* without a url attribute (a parsed Listing), and with a url that has no
\* query string, one of two query strings, or another base
KeyedListings ==
    { [item_id |-> id, title |-> title] : id \in {None, Some("111"), Some("222")},
                                           title \in {TITLE_OK, TITLE_SHOUT, TITLE_PEACE} }
    \cup { [item_id |-> id, title |-> title, url |-> Some(url)] :
               id \in {None, Some("111"), Some("222")},
               title \in {TITLE_OK, TITLE_SHOUT, TITLE_PEACE},
               url \in { Url("https://www.ebay.com/itm/morgan", ""),
                         Url("https://www.ebay.com/itm/morgan", "hash=item1"),
                         Url("https://www.ebay.com/itm/morgan", "hash=item2"),
                         Url("https://www.ebay.com/itm/peace", "") } }

\* _dedupe_key_from_listing on two objects
DedupeKeyFromListing(a, b) ==
    /\ pc = "hit_engine"
    /\ pc' = "returned"
    /\ call' = [op |-> "_dedupe_key_from_listing", a |-> a, b |-> b]
    /\ ret' = Returned(<<_dedupe_key_from_listing(a), _dedupe_key_from_listing(b)>>)
    /\ EvalFrame

\* get_listing_key on two objects
GetListingKey(a, b) ==
    /\ pc = "hit_engine"
    /\ pc' = "returned"
    /\ call' = [op |-> "get_listing_key", a |-> a, b |-> b]
    /\ ret' = Returned(<<get_listing_key(a), get_listing_key(b)>>)
    /\ EvalFrame

\* the titles passed to extract_quantity_from_title
QuantityTitles ==
    { TITLE_OK, TITLE_LOT, TITLE_LOT_ROLL, TITLE_LOT_COINS, TITLE_ROLL_PAREN,
      TITLE_BIG_LOT, TITLE_COIN_QTY }

\* silver_math.extract_quantity_from_title(title)
ExtractQuantityFromTitle(title) ==
    /\ pc = "hit_engine"
    /\ pc' = "returned"
    /\ call' = [op |-> "extract_quantity_from_title", title |-> title]
    /\ ret' = Returned(extract_quantity_from_title(title))
    /\ EvalFrame

\* the listing dicts of one scan: two titles, two prices, one to five bids,
\* ten minutes left; a lot; one that ends too late
CaptureListings ==
    { ListingDict(title, Some(price), bids, 1, Some(10)) :
        title \in {TITLE_OK, TITLE_PEACE}, price \in {2400, 2500}, bids \in {0, 2, 5} }
    \cup { ListingDict(TITLE_LOT, Some(2000), 9, 1, Some(10)),
           ListingDict(TITLE_OK, Some(2000), 9, 1, Some(45)) }

\* the scans: up to three listing dicts
CaptureScans ==
    {<<a>> : a \in CaptureListings}
    \cup {<<a, b>> : a \in CaptureListings, b \in CaptureListings}
    \cup {<<a, b, c>> : a \in CaptureListings, b \in CaptureListings,
                         c \in {ListingDict(TITLE_OK, Some(2400), 5, 1, Some(10))}}

\* the stores passed to capture_ema_updates
CaptureStores ==
    {EmptyStore, [k \in {TITLE_OK} |-> <<3000, 3, 3000, 0, 6>>]}

\* capture_ema_updates(listings, store) of the Sprint-07 HOTFIX
CaptureEmaUpdates(listings, s) ==
    /\ pc = "hit_engine"
    /\ pc' = "returned"
    /\ call' = [op |-> "capture_ema_updates", listings |-> listings, store |-> s]
    /\ ret' = Returned(capture_ema_updates(listings, s))
    /\ EvalFrame

\* minutes between two calls of score_prospect on the same listing
Delays == {20}

\* _minutes_left subtracts time.time() from listing.end_time_ts.  The model
\* holds end_time_ts in minutes after the clock reading of the first call
\* (now = 0), so a call made when the clock reads `clock` sees the listing
\* with end_time_ts - clock minutes to go
AtClock(listing, clock) ==
    IF listing.end_time_ts = None THEN listing
    ELSE [listing EXCEPT !.end_time_ts = Some(Val(listing.end_time_ts) - clock)]

\* a second call of score_prospect with the arguments and the configuration
\* of the first, made delay minutes later
ScoreProspectAgain(delay) ==
    /\ pc = "returned"
    /\ call.op = "score_prospect"
    /\ pc' = "scored_again"
    /\ now' = now + delay
    /\ call' = [op |-> "score_prospect_again", listing |-> call.listing,
                fmv_floor |-> call.fmv_floor, dealer_value |-> call.dealer_value,
                bonus |-> call.bonus, first |-> ret.val]
    /\ ret' = Returned(score_prospect(AtClock(call.listing, now'), call.fmv_floor,
                                      call.dealer_value, call.bonus))
    /\ UNCHANGED <<priceFile, seenFile, store, nUpd, memHist, saveOld, saveNew,
                   interrupted, cycleVars>>

NextEval ==
    \/ \E listings \in EvalBatches, bonus \in Bonuses : EvaluateListings(listings, bonus)
    \/ SelectHits
    \/ \E ident \in Identities : ResolveFmv(ident[1], ident[2], ident[3])
    \/ \E listing \in EvalListings, fmv_floor \in FmvFloors, bonus \in Bonuses :
          \E dealer_value \in {None} \cup
                 (IF fmv_floor = None THEN {}
                  ELSE {Some(Val(fmv_floor) * NUMISMATIC_PAYOUT_PCT)}) :
             ScoreProspect(listing, fmv_floor, dealer_value, bonus)
    \/ \E delay \in Delays : ScoreProspectAgain(delay)
    \/ \E listing \in EvalListings : CalcSilver(listing)
    \/ CalcSilverAgain
    \/ \E listing \in EvalListings : CalcSilverSprint07(listing)
    \/ \E a \in KeyedListings, b \in KeyedListings : DedupeKeyFromListing(a, b)
    \/ \E a \in KeyedListings, b \in KeyedListings : GetListingKey(a, b)
    \/ \E title \in QuantityTitles : ExtractQuantityFromTitle(title)
    \/ \E listings \in CaptureScans, s \in CaptureStores : CaptureEmaUpdates(listings, s)

SpecEval == InitEval /\ [][NextEval]_vars

-----------------------------------------------------------------------------
(* Two scan cycles on the same files: two monitor processes, each running  *)
(* run_once once.  Each file operation is a step of its own, so the steps  *)
(* of the two cycles interleave in every order.  The locals of run_once    *)
(* (pc, store, filtered, hits, keys, seen, new_keys, merged) are held per  *)
(* process.  No write fails here; failed and interrupted writes are the    *)
(* subject of Spec and SpecStore.                                          *)

NumProcs == 2

Procs == 1..NumProcs

\* the page each process scans: one card
RaceListings ==
    { Listing(Some("101"), TITLE_OK, 2500, 2, 10),
      Listing(Some("102"), TITLE_PEACE, 2500, 2, 10),
      Listing(Some("103"), TITLE_OK, 2400, 3, 10),
      Listing(Some("104"), TITLE_GRADED, 2500, 2, 10),
      Listing(Some("105"), TITLE_OK, 9000, 2, 10) }

RaceBatches == {<<a>> : a \in RaceListings}

RECURSIVE TotalSamples(_)
\* the sum of entry[SAMPLES] over the entries of a store
TotalSamples(s) ==
    IF DOMAIN s = {} THEN 0
    ELSE LET k == CHOOSE x \in DOMAIN s : TRUE
         IN  s[k][SAMPLES] + TotalSamples([x \in DOMAIN s \ {k} |-> s[x]])

\* process p is between load_store() and the end of save_store()
InPriceSection(p) == pc[p] \in {"cycle_open_store", "cycle_save_store"}

\* process p is between load_seen_hits() and the end of save_seen_hits()
InSeenSection(p) == pc[p] \in {"cycle_open_seen", "cycle_save_seen"}

\* no boundary at all, whatever mutex says
MayAlwaysLoad(p) == TRUE

\* process p may enter the load..save section of the price memory
MayLoadStore(p) == mutex => \A q \in Procs \ {p} : ~InPriceSection(q)

\* process p may enter the load..save section of the dedup state
MayLoadSeen(p) == mutex => \A q \in Procs \ {p} : ~InSeenSection(q)

InitRace ==
    /\ pc = [p \in Procs |-> "idle"]
    /\ priceFile = FileMissing
    /\ seenFile = SeenMissing
    /\ store = [p \in Procs |-> EmptyStore]
    /\ now = 0
    /\ call = [op |-> "start"]
    /\ ret = Returned(None)
    /\ nUpd = 0
    /\ memHist = NoHist
    /\ saveOld = None
    /\ saveNew = None
    /\ interrupted = FALSE
    /\ filtered = [p \in Procs |-> <<>>]
    /\ hits = [p \in Procs |-> <<>>]
    /\ keys = [p \in Procs |-> {}]
    /\ seen = [p \in Procs |-> {}]
    /\ new_keys = [p \in Procs |-> {}]
    /\ merged = [p \in Procs |-> {}]
    /\ cycle = 0
    /\ notified = NobodyNotified
    /\ persistedSeen = {}
    /\ persistedKeys = {}
    /\ mutex \in BOOLEAN

\* what no step of a cycle changes
RaceFrame == UNCHANGED <<now, call, ret, memHist, saveOld, saveNew, interrupted, mutex>>

\* run_once of process p from the parse to capture_updates: in-run dedupe,
\* filters, load_store, the capture loop, capture_updates.  nUpd counts the
\* samples the cycles have added.
RaceCapture(p, batch) ==
    LET listings_all == _dedupe_listings_in_run(batch)
        kept         == SelectSeq(listings_all, PassesFilters)
        loaded       == load_store(priceFile)
        updates      == CaptureLoop(kept, NoUpdates, {})
        captured     == capture_updates(loaded.store, updates)
    IN  /\ pc[p] = "idle"
        /\ MayLoadStore(p)
        /\ ~loaded.raised
        /\ cycle' = cycle + 1
        /\ filtered' = [filtered EXCEPT ![p] = kept]
        /\ store' = [store EXCEPT ![p] = captured]
        /\ nUpd' = nUpd + TotalSamples(captured) - TotalSamples(loaded.store)
        /\ pc' = [pc EXCEPT ![p] = IF DOMAIN updates # {} THEN "cycle_open_store"
                                   ELSE "cycle_evaluate"]
        /\ UNCHANGED <<priceFile, seenFile, hits, keys, seen, new_keys, merged,
                       notified, persistedSeen, persistedKeys>>
        /\ RaceFrame

\* save_store of process p: open(p, "w") truncates price_store.json
RaceOpenStore(p) ==
    /\ pc[p] = "cycle_open_store"
    /\ pc' = [pc EXCEPT ![p] = "cycle_save_store"]
    /\ priceFile' = FileGarbage
    /\ UNCHANGED <<seenFile, store, nUpd, cycle, filtered, hits, keys, seen, new_keys,
                   merged, notified, persistedSeen, persistedKeys>>
    /\ RaceFrame

\* save_store of process p writes every line and closes the file
RaceSaveStore(p) ==
    /\ pc[p] = "cycle_save_store"
    /\ pc' = [pc EXCEPT ![p] = "cycle_evaluate"]
    /\ priceFile' = save_store(store[p])
    /\ persistedKeys' = persistedKeys \cup DOMAIN store[p]
    /\ UNCHANGED <<seenFile, store, nUpd, cycle, filtered, hits, keys, seen, new_keys,
                   merged, notified, persistedSeen>>
    /\ RaceFrame

\* run_once of process p, lines 308-316: dedupe, evaluate_listings,
\* select_hits
RaceEvaluate(p) ==
    LET deduped   == _dedupe_listings_in_run(filtered[p])
        evaluated == evaluate_listings(deduped, priceFile, PROS_CAT3_MISPRICE_BONUS)
        selected  == select_hits(evaluated.val)
    IN  /\ pc[p] = "cycle_evaluate"
        /\ ~evaluated.raised
        /\ pc' = [pc EXCEPT ![p] = "cycle_load_seen"]
        /\ hits' = [hits EXCEPT ![p] = selected]
        /\ UNCHANGED <<priceFile, seenFile, store, nUpd, cycle, filtered, keys, seen,
                       new_keys, merged, notified, persistedSeen, persistedKeys>>
        /\ RaceFrame

\* run_once of process p, lines 319-322: load_seen_hits, the keys of the
\* hits, split_new_hits
RaceLoadSeen(p) ==
    LET r == split_new_hits(KeysOf(hits[p]), load_seen_hits(seenFile).keys) IN
    /\ pc[p] = "cycle_load_seen"
    /\ MayLoadSeen(p)
    /\ pc' = [pc EXCEPT ![p] = "cycle_open_seen"]
    /\ keys' = [keys EXCEPT ![p] = r.candidate_keys]
    /\ seen' = [seen EXCEPT ![p] = r.seen_keys]
    /\ new_keys' = [new_keys EXCEPT ![p] = r.new_keys]
    /\ merged' = [merged EXCEPT ![p] = r.merged]
    /\ UNCHANGED <<priceFile, seenFile, store, nUpd, cycle, filtered, hits, notified,
                   persistedSeen, persistedKeys>>
    /\ RaceFrame

\* save_seen_hits of process p: open(p, "w") truncates seen_hits.json
RaceOpenSeen(p) ==
    /\ pc[p] = "cycle_open_seen"
    /\ pc' = [pc EXCEPT ![p] = "cycle_save_seen"]
    /\ seenFile' = SeenGarbage
    /\ UNCHANGED <<priceFile, store, nUpd, cycle, filtered, hits, keys, seen, new_keys,
                   merged, notified, persistedSeen, persistedKeys>>
    /\ RaceFrame

\* save_seen_hits of process p completes, run_once returns new_hits and
\* main hands them to the notifier
RaceSaveSeen(p) ==
    /\ pc[p] = "cycle_save_seen"
    /\ pc' = [pc EXCEPT ![p] = "done"]
    /\ seenFile' = save_seen_hits(merged[p])
    /\ persistedSeen' = persistedSeen \cup merged[p]
    /\ notified' = NotifiedAfter(notified, KeysOf(NewHits(hits[p], new_keys[p])))
    /\ UNCHANGED <<priceFile, store, nUpd, cycle, filtered, hits, keys, seen, new_keys,
                   merged, persistedKeys>>
    /\ RaceFrame

NextRace ==
    \/ \E p \in Procs, batch \in RaceBatches : RaceCapture(p, batch)
    \/ \E p \in Procs : RaceOpenStore(p)
    \/ \E p \in Procs : RaceSaveStore(p)
    \/ \E p \in Procs : RaceEvaluate(p)
    \/ \E p \in Procs : RaceLoadSeen(p)
    \/ \E p \in Procs : RaceOpenSeen(p)
    \/ \E p \in Procs : RaceSaveSeen(p)

SpecRace == InitRace /\ [][NextRace]_vars

-----------------------------------------------------------------------------
(* Properties of the price memory and of the dedup state (SpecStore) *)

\* what the contract calls an ineligible input of update_price
Ineligible(key, total_price, bid_count, qty, title) ==
    \/ key = ""
    \/ qty # Some(1)
    \/ Val(bid_count) < 1
    \/ total_price = None
    \/ Val(total_price) <= 0
    \/ title = None
    \/ Val(title) \in {"", TITLE_BLANK}
    \/ Val(title) \in {TITLE_LOT, TITLE_HOLED}

\* C2: on every store the program reaches, update_price with an ineligible
\* input (empty key, qty other than 1 or missing, an integer bid count below
\* one, total price missing or not positive, title missing, blank or
\* matching a disqualifier pattern) returns False, raises nothing and leaves
\* the store exactly as it was.
C2_IneligibleIsNoOp ==
    \A key \in DriverKeys, total_price \in DriverPrices, bid_count \in DriverBids,
       qty \in DriverQtys, title \in DriverTitles \cup {Some(TITLE_BLANK), Some(TITLE_HOLED)} :
        Ineligible(key, total_price, bid_count, qty, title) =>
            LET r == update_price_hotfix(store, key, total_price, bid_count, qty, title)
            IN  /\ ~r.raised
                /\ r.val = FALSE
                /\ r.store = store

\* an ineligible call has just returned False on a store that holds an entry
C2_Witness ==
    /\ call.op = "update_price"
    /\ ret = Returned(FALSE)
    /\ K1 \in DOMAIN store
    /\ store[K1][SAMPLES] = 2

RECURSIVE SumBids(_)
SumBids(calls) ==
    IF calls = <<>> THEN 0 ELSE calls[Len(calls)][2] + SumBids(SubSeq(calls, 1, Len(calls) - 1))

RECURSIVE Pow10(_)
Pow10(n) == IF n = 0 THEN 1 ELSE 10 * Pow10(n - 1)

\* p*(1 + bump_pct) for p in cents, in units of 1e-4 dollar
BumpedOnce(p) == p * 108

\* the EMA of the contract, exact: ema_1 = bumped(p1),
\* ema_i = 0.4*bumped(p_i) + 0.6*ema_(i-1), in units of 10^-(3+n) dollar
RECURSIVE ExactEma(_)
ExactEma(calls) ==
    LET n == Len(calls) IN
    IF n = 1 THEN BumpedOnce(calls[1][1])
    ELSE 4 * BumpedOnce(calls[n][1]) * Pow10(n - 2) + 6 * ExactEma(SubSeq(calls, 1, n - 1))

\* round to the nearest cent a value held in units of 1e-5 dollar
NearestCent5(x) == (x + 500) \div 1000

\* the EMA with every stored value rounded to the cent: ema_1 =
\* round2(bumped(p1)), ema_i = round2(0.4*bumped(p_i) + 0.6*ema_(i-1)), in cents
RECURSIVE RoundedEma(_)
RoundedEma(calls) ==
    LET n == Len(calls) IN
    IF n = 1 THEN NearestCent5(10 * BumpedOnce(calls[1][1]))
    ELSE NearestCent5(4 * BumpedOnce(calls[n][1])
                      + 600 * RoundedEma(SubSeq(calls, 1, n - 1)))

\* the keys whose entry was created from no entry, by eligible calls only
Tracked == {k \in DOMAIN store : k \in DOMAIN memHist /\ memHist[k].known}

\* every eligible input makes update_price return True
EligibleReturnsTrue ==
    \A key \in DriverKeys, total_price \in DriverPrices, bid_count \in DriverBids,
       qty \in DriverQtys, title \in DriverTitles :
        ~Ineligible(key, total_price, bid_count, qty, title) =>
            LET r == update_price_hotfix(store, key, total_price, bid_count, qty, title)
            IN  ~r.raised /\ r.val = TRUE

\* C3 as stated: after n eligible calls from no entry the entry holds
\* samples = n, observers_total = b1+...+bn, last_total_price = bumped(pn)
\* and ema_price = the exact recurrence over the bumped prices.
C3_ExactRecurrence ==
    /\ EligibleReturnsTrue
    /\ \A k \in Tracked :
          LET calls == memHist[k].calls
              n     == Len(calls)
          IN  /\ store[k][SAMPLES] = n
              /\ store[k][OBSERVERS_TOTAL] = SumBids(calls)
              /\ store[k][LAST_TOTAL_PRICE] * 100 = BumpedOnce(calls[n][1])
              /\ store[k][EMA_PRICE] * Pow10(n + 1) = ExactEma(calls)

\* C3: after n >= 1 eligible calls from no entry (ineligible calls
\* interleaved anywhere), every eligible call returns True and the entry
\* holds samples = n, observers_total = b1+...+bn, last_total_price =
\* round2(bumped(pn)) and ema_price = the recurrence ema_1 =
\* round2(bumped(p1)), ema_i = round2(alpha*bumped(p_i) + (1-alpha)*ema_(i-1))
\* over the stored, rounded values; the bump is applied once per price.
C3_RoundedRecurrence ==
    /\ EligibleReturnsTrue
    /\ \A k \in Tracked :
          LET calls == memHist[k].calls
              n     == Len(calls)
          IN  /\ n >= 1
              /\ store[k][SAMPLES] = n
              /\ store[k][OBSERVERS_TOTAL] = SumBids(calls)
              /\ store[k][LAST_TOTAL_PRICE] = NearestCent5(10 * BumpedOnce(calls[n][1]))
              /\ store[k][EMA_PRICE] = RoundedEma(calls)

\* two eligible captures at different prices behind one entry, an ineligible
\* call having come last
C3_Witness ==
    /\ K1 \in Tracked
    /\ Len(memHist[K1].calls) = 2
    /\ memHist[K1].calls[1][1] # memHist[K1].calls[2][1]
    /\ call.op = "update_price"
    /\ ret = Returned(FALSE)

\* C6: a key of the price memory has an entry only with samples >= 1.
C6_EntryIffSamples ==
    \A k \in DOMAIN store : store[k][SAMPLES] >= 1

\* what the next load of the file a save was writing returns
NextLoad(op, file) ==
    IF op = "save_store" THEN load_store(file) ELSE load_seen_hits(file)

\* C7: after a save is interrupted, the next load returns the complete new
\* contents or the complete previous contents.
C7_OldOrNew ==
    interrupted =>
        LET file == IF call.op = "save_store" THEN priceFile ELSE seenFile
        IN  \/ NextLoad(call.op, file) = NextLoad(call.op, Val(saveOld))
            \/ NextLoad(call.op, file) = NextLoad(call.op, Val(saveNew))

\* C8: a save whose write failed has raised to its caller.
C8_WriteFailureSurfaces ==
    call.failed => ret.raised

\* a price file that is a well-formed store: a JSON object of well-formed
\* entries
WellFormedPriceFile(file) ==
    /\ file.kind = "object"
    /\ \A k \in DOMAIN file.obj :
          \/ file.obj[k].t = "list" /\ Len(file.obj[k].v) >= 5 /\ ~file.obj[k].bad
          \/ file.obj[k].t = "dict"

\* a seen file that is a well-formed store
WellFormedSeenFile(file) == file.kind \in {"dict", "list"}

\* C9: a load of a missing file, or of any content that is not a well-formed
\* store, returns the empty store (the empty set) and does not raise.
C9_FailOpen ==
    /\ (call.op = "load_store" /\ ~WellFormedPriceFile(priceFile)) =>
          ret = Returned(EmptyStore)
    /\ (call.op = "load_seen_hits" /\ ~WellFormedSeenFile(seenFile)) =>
          ret = Returned({})

-----------------------------------------------------------------------------
(* Properties of the scan cycle (Spec) *)

\* C1: over any sequence of scan cycles, a dedupe key is in the new_hits
\* handed to the notifier in at most one cycle.
C1_NotifiedAtMostOnce ==
    \A k \in DOMAIN notified : notified[k] <= 1

\* C4: the set a cycle writes with save_seen_hits holds every key an earlier
\* cycle persisted.
C4_SeenSetGrows ==
    seenFile.kind = "dict" => persistedSeen \subseteq seenFile.hits

\* C5: a benchmark key written by one save_store is in every later complete
\* version of price_store.json.
C5_EntryNeverDeleted ==
    priceFile.kind = "object" => persistedKeys \subseteq DOMAIN priceFile.obj

\* C10: split_new_hits(candidates, seen) returns (candidates minus seen,
\* candidates union seen) and leaves both arguments as they were.
C10_SplitNew ==
    [][(pc = "cycle_split" /\ pc' = "cycle_save_seen") =>
          /\ new_keys' = keys \ seen
          /\ merged' = keys \cup seen
          /\ keys' = keys
          /\ seen' = seen]_vars

\* the split has run on candidates of which one was seen and one was not,
\* with a seen key that is no candidate
C10_Witness ==
    /\ pc = "cycle_save_seen"
    /\ keys \cap seen # {}
    /\ keys \ seen # {}
    /\ seen \ keys # {}
    /\ new_keys = keys \ seen

-----------------------------------------------------------------------------
(* Properties of the evaluator (SpecEval) *)

\* evaluate_listings has returned its list
EvaluateReturned == call.op = "evaluate_listings" /\ ~ret.raised

\* rec is melt_payout / (1 + MIN_MARGIN_PCT/100) to the nearest cent, with
\* melt_payout = quantity * oz_per_coin * SPOT_PRICE * PAWN_PAYOUT_PCT/100
\* (melt_payout in units of 1e-5 cent, rec in cents)
MeltRecommendedMax(rec, calc) ==
    LET melt_payout == calc.quantity * calc.oz_per_coin * SPOT_PRICE * PAWN_PAYOUT_PCT
        d == 1000 * (100 + MIN_MARGIN_PCT)
    IN  /\ calc.melt_payout = melt_payout
        /\ (rec * d - melt_payout) * 2 <= d
        /\ (melt_payout - rec * d) * 2 < d

MeltView(e) ==
    [is_hit            |-> e.is_hit,
     melt_value        |-> e.silver_calc.melt_value,
     melt_payout       |-> e.silver_calc.melt_payout,
     profit            |-> e.silver_calc.profit,
     margin_pct        |-> e.silver_calc.margin_pct,
     rec_max_total     |-> e.silver_calc.rec_max_total,
     rec_max_item      |-> e.silver_calc.rec_max_item,
     profit_at_rec_max |-> e.silver_calc.profit_at_rec_max,
     margin_at_rec_max |-> e.silver_calc.margin_at_rec_max]

\* the melt verdicts of an evaluation, record by record, or that it raised
MeltOutcome(r) ==
    [raised |-> r.raised,
     views  |-> IF r.raised THEN <<>>
                ELSE [i \in 1..Len(r.val) |-> MeltView(r.val[i])]]

\* the same listings with the titles that resolve to an identity replaced
\* by a dollar title that resolves to none: total_price, shipping, quantity
\* and oz_per_coin are kept (a listing whose quantity comes from its title
\* keeps its title)
WithoutIdentity(listings) ==
    [i \in 1..Len(listings) |->
        IF listings[i].quantity >= 1
        THEN [listings[i] EXCEPT !.title = TITLE_NODATE]
        ELSE listings[i]]

\* C12: the melt verdicts of an evaluation (is_hit and the melt fields of
\* every record) are the same as those of the evaluation of the same
\* listings with no identity resolving, and as those of an evaluation with
\* any other content of the price memory.
C12_MeltIndependent ==
    call.op = "evaluate_listings" =>
        \A file \in EvalPriceFiles :
            /\ MeltOutcome(evaluate_listings(call.listings, file, call.bonus))
                   = MeltOutcome(ret)
            /\ MeltOutcome(evaluate_listings(WithoutIdentity(call.listings), file,
                                             call.bonus))
                   = MeltOutcome(ret)

\* a margin kept as the quotient num/den is at least pct percent
RatioAtLeast(ratio, pct) == 100 * ratio[1] >= pct * ratio[2]

\* what score_prospect returns for an Evaluated record's listing and anchors
ScoreOf(e, bonus) ==
    score_prospect(e.listing, e.silver_calc.fmv_floor, e.silver_calc.dealer_value,
                   bonus)

\* C13: in every list evaluate_listings returns, a record is a prospect
\* only if an override resolved with an FMV floor, total_price is
\* positive and within PROS_MAX_TOTAL, dealer_margin_pct reaches
\* PROS_MIN_DEALER_MARGIN_PCT or the score's reasons hold
\* "premium-terms-priced-like-raw", and the score reaches PROS_MIN_SCORE; a
\* record without an FMV floor is never a prospect.
C13_ProspectOnlyIf ==
    EvaluateReturned =>
        \A i \in 1..Len(ret.val) :
            LET e     == ret.val[i]
                total == Val(e.listing.total_price)
                ps    == ScoreOf(e, call.bonus)
            IN  /\ e.silver_calc.is_prospect = e.is_prospect
                /\ e.silver_calc.fmv_floor = None => ~e.is_prospect
                /\ e.is_prospect =>
                       /\ e.numismatic_override # None
                       /\ e.silver_calc.fmv_floor # None
                       /\ total > 0
                       /\ total <= PROS_MAX_TOTAL
                       /\ \/ /\ e.silver_calc.dealer_margin_pct # None
                             /\ RatioAtLeast(Val(e.silver_calc.dealer_margin_pct),
                                             PROS_MIN_DEALER_MARGIN_PCT)
                          \/ \E j \in 1..Len(ps.reasons) :
                                 ps.reasons[j] = "premium-terms-priced-like-raw"
                       /\ ps.score >= PROS_MIN_SCORE

\* a returned list with a prospect that is no hit, let through by the
\* Category-3 reason alone, next to a record whose override resolved to no
\* FMV floor and that is no prospect
C13_Witness ==
    /\ EvaluateReturned
    /\ \E i \in 1..Len(ret.val) :
           /\ ret.val[i].is_prospect
           /\ ~ret.val[i].is_hit
           /\ ~RatioAtLeast(Val(ret.val[i].silver_calc.dealer_margin_pct),
                            PROS_MIN_DEALER_MARGIN_PCT)
    /\ \E i \in 1..Len(ret.val) :
           /\ ret.val[i].numismatic_override # None
           /\ ret.val[i].silver_calc.fmv_floor = None
           /\ ~ret.val[i].is_prospect

\* the price a hit needs is absent: total_price is None or not positive
NoPrice(lst) == lst.total_price = None \/ Val(lst.total_price) <= 0

\* end_time_ts is an attribute of the listing and holds None
EndTimeIsNone(lst) == lst.has_end_time_ts /\ lst.end_time_ts = None

\* C14: an evaluation of a batch that holds a listing without a price
\* (total_price None or not positive) or without an FMV anchor does not
\* raise; it returns one record for every listing of the batch, the records
\* of the listings without a price are neither hits nor prospects, and the
\* records without an FMV floor are no prospects.
C14_MissingAnchorDegrades ==
    ( /\ call.op = "evaluate_listings"
      /\ \A i \in 1..Len(call.listings) : ~EndTimeIsNone(call.listings[i]) )
    => /\ ~ret.raised
       /\ Len(ret.val) = Len(call.listings)
       /\ \A i \in 1..Len(call.listings) :
              \E j \in 1..Len(ret.val) : ret.val[j].listing = call.listings[i]
       /\ \A j \in 1..Len(ret.val) :
              /\ NoPrice(ret.val[j].listing) =>
                     ~ret.val[j].is_hit /\ ~ret.val[j].is_prospect
              /\ ret.val[j].silver_calc.fmv_floor = None => ~ret.val[j].is_prospect

\* the end time of a record's listing is known: end_time_ts is there and
\* is not None
EndKnown(e) == e.listing.has_end_time_ts /\ e.listing.end_time_ts # None

\* C15: when the loop of evaluate_listings raises for no listing, the call
\* returns (the sort raises nothing); in the returned list the records with
\* a known end time are in ascending order of end_time_ts, and every record
\* whose end_time_ts is missing or None comes after all of them.
C15_SortedUnknownLast ==
    ( /\ call.op = "evaluate_listings"
      /\ \A i \in 1..Len(call.listings) :
             ~EvaluateOne(call.listings[i], priceFile, call.bonus).raised )
    => /\ ~ret.raised
       /\ \A i \in 1..Len(ret.val), j \in 1..Len(ret.val) :
              i < j =>
                 /\ ~EndKnown(ret.val[i]) => ~EndKnown(ret.val[j])
                 /\ EndKnown(ret.val[i]) /\ EndKnown(ret.val[j]) =>
                        Val(ret.val[i].listing.end_time_ts)
                            <= Val(ret.val[j].listing.end_time_ts)

\* the positions of the records of evaluated that are a hit or a prospect
AlertPositions(evaluated) ==
    {i \in 1..Len(evaluated) : evaluated[i].is_hit \/ evaluated[i].is_prospect}

\* C16: select_hits, called on the list evaluate_listings returned, returns
\* the records that are a hit or a prospect and no other, in the order of
\* its input, each position of the input once: the k-th record returned is
\* the record at the k-th such position.
C16_SelectExactly ==
    call.op = "select_hits" =>
        LET pos == AlertPositions(call.evaluated) IN
        /\ ~ret.raised
        /\ Len(ret.val) = Cardinality(pos)
        /\ \A k \in 1..Len(ret.val) :
               \E i \in pos :
                  /\ Cardinality({j \in pos : j <= i}) = k
                  /\ ret.val[k] = call.evaluated[i]

\* select_hits has returned fewer records than it was given, one of them
\* both a hit and a prospect, and left out a record that is neither
C16_Witness ==
    /\ call.op = "select_hits"
    /\ \E k \in 1..Len(ret.val) : ret.val[k].is_hit /\ ret.val[k].is_prospect
    /\ \E i \in 1..Len(call.evaluated) :
           ~call.evaluated[i].is_hit /\ ~call.evaluated[i].is_prospect
    /\ Len(ret.val) >= 2

\* the benchmark key of the identity _resolve_fmv was called with
CalledKey == _make_key(call.coin_type, call.year, call.mint)

\* the price memory as the call finds it holds an entry for the key
MemoryHolds(key) ==
    /\ ~load_store(priceFile).raised
    /\ key \in DOMAIN load_store(priceFile).store

\* the labels that start with "Offline EMA"
OfflineEmaLabels ==
    {"Offline EMA"} \cup {"Offline EMA o." \o ToString(n) : n \in 0..9}

\* the floors the static table holds for an identity, under any grade
StaticFloorsOf(coin_type, year, mint) ==
    { Val(STATIC_FLOORS[k]) :
        k \in { k \in DOMAIN STATIC_FLOORS :
                  /\ k.tuple[1] = coin_type
                  /\ k.tuple[2] = ToString(year)
                  /\ k.tuple[3] = mint
                  /\ STATIC_FLOORS[k] # None } }

\* C17: when the price memory holds an entry for the benchmark key
\* "<coin_type>|<year>|<mint>", _resolve_fmv returns that entry's ema_price
\* with a label that starts with "Offline EMA", whatever the static floor
\* table holds for the identity.
C17_PriceMemoryPriority ==
    (call.op = "_resolve_fmv" /\ MemoryHolds(CalledKey)) =>
        /\ ~ret.raised
        /\ ret.val[1] = Some(load_store(priceFile).store[CalledKey][EMA_PRICE])
        /\ ret.val[2] # None
        /\ Val(ret.val[2]) \in OfflineEmaLabels

\* _resolve_fmv has answered from the price memory for an identity the
\* static table holds another floor for
C17_Witness ==
    /\ call.op = "_resolve_fmv"
    /\ MemoryHolds(CalledKey)
    /\ StaticFloorsOf(call.coin_type, call.year, call.mint) # {}
    /\ ~ret.raised
    /\ Val(ret.val[1]) \notin StaticFloorsOf(call.coin_type, call.year, call.mint)
    /\ ret.val[2] = Some("Offline EMA o.7")

\* C18: when the price memory holds no entry for the identity,
\* _resolve_fmv returns (value, "Static Default") with a floor the static
\* table holds for (coin_type, year, mint) if it holds one, and (None, None)
\* only if it holds none.
C18_StaticFallback ==
    ( /\ call.op = "_resolve_fmv"
      /\ ~load_store(priceFile).raised
      /\ ~MemoryHolds(CalledKey) )
    => /\ ~ret.raised
       /\ IF StaticFloorsOf(call.coin_type, call.year, call.mint) # {}
          THEN /\ ret.val[1] # None
               /\ Val(ret.val[1]) \in StaticFloorsOf(call.coin_type, call.year, call.mint)
               /\ ret.val[2] = Some("Static Default")
          ELSE ret.val = <<None, None>>

\* C19: whatever the listing, the anchors and the Category-3 bonus
\* score_prospect is called with, the score it returns is an integer from
\* 0 to 100.
C19_ScoreInRange ==
    call.op = "score_prospect" =>
        /\ ~ret.raised
        /\ ret.val.score \in 0..100

\* score_prospect has returned 100 for a listing that earned the
\* Category-3 bonus of 200
C19_Witness ==
    /\ call.op = "score_prospect"
    /\ call.bonus > 100
    /\ \E i \in 1..Len(ret.val.reasons) :
           ret.val.reasons[i] = "premium-terms-priced-like-raw"
    /\ ret.val.score = 100

\* score_prospect was called without an anchor: fmv_floor or dealer_value
\* is None, or total_price is None or not positive
AnchorMissing ==
    \/ call.fmv_floor = None
    \/ call.dealer_value = None
    \/ NoPrice(call.listing)

\* the titles that hold a keyword of PROS_DISQUALIFY_KEYWORDS or match
\* PROS_DISQUALIFY_REGEX
DisqualifyTitles == {TITLE_HOLED}

\* the reasons of the additive signals of score_prospect
SignalReasons ==
    {"huge-dealer-margin", "dealer-margin>=50", "dealer-margin>=35",
     "dealer-margin>=20", "thin-dealer-margin", "fmv-gap>=100", "fmv-gap>=50",
     "unnoticed(0-bids)", "few-bids", "some-bids", "many-bids", "hype-language",
     "under-described", "high-grade-signals", "premium-terms-priced-like-raw",
     "ending-soon"}

\* C20: score_prospect called without an anchor returns the score 0 with
\* the single reason "missing-anchors"; called with the anchors on a title
\* that matches a hard-disqualify keyword or regex it returns the score 0
\* with a single disqualify reason; in both cases no reason of an additive
\* signal is returned.  On every other call the first reason is that of
\* the dealer-margin signal.
C20_HardGates ==
    call.op = "score_prospect" =>
        /\ AnchorMissing => ret.val = ProspectScore(0, <<"missing-anchors">>)
        /\ (~AnchorMissing /\ call.listing.title \in DisqualifyTitles) =>
               /\ ret.val.score = 0
               /\ Len(ret.val.reasons) = 1
               /\ ret.val.reasons[1] \in {"pros-hard-disqualify-keyword",
                                           "pros-hard-disqualify-regex"}
        /\ (AnchorMissing \/ call.listing.title \in DisqualifyTitles) =>
               \A i \in 1..Len(ret.val.reasons) : ret.val.reasons[i] \notin SignalReasons
        /\ (~AnchorMissing /\ call.listing.title \notin DisqualifyTitles) =>
               ret.val.reasons[1] \in SignalReasons

\* score_prospect has returned 0 with the keyword reason alone for a holed
\* coin with both anchors, priced far below its dealer value with ten
\* minutes left
C20_Witness ==
    /\ call.op = "score_prospect"
    /\ ~AnchorMissing
    /\ call.listing.title \in DisqualifyTitles
    /\ DealerMarginAtLeast(Val(call.dealer_value), Val(call.listing.total_price), 75)
    /\ call.listing.time_left = TimeLeftText(10)
    /\ ret.val = ProspectScore(0, <<"pros-hard-disqualify-keyword">>)


\* C21: two calls of score_prospect with equal arguments and equal
\* configuration return the same score and the same reasons, whenever they
\* are made
C21_SameInputsSameScore ==
    call.op = "score_prospect_again" => ret.val = call.first

\* C22: a second call of calc_silver on the same listing, under the same
\* configuration, returns what the first call returned (or raises as the
\* first did), and leaves the listing as the first call left it
C22_CalcSilverIdempotent ==
    call.op = "calc_silver_again" =>
        /\ ret = call.first
        /\ call.listing = enrich_listing_silver_fields(call.passed)

\* the second call on a lot whose quantity the first call took from the
\* title
C22_Witness ==
    /\ call.op = "calc_silver_again"
    /\ call.passed.quantity = 0
    /\ call.listing.quantity = 5
    /\ ~ret.raised
    /\ ret.val.quantity = 5

\* the sign of profit_at_rec_max, whatever its unit
ProfitAtRecMaxNonNegative(calc) == calc.profit_at_rec_max >= 0

\* C23: for every quantity, rec_max_total is melt_payout / (1 + margin) in
\* cents, melt_payout = quantity * oz_per_coin * spot * payout / 100 holding
\* the quantity once, and profit_at_rec_max is not negative
C23_QuantityCountedOnce ==
    call.op \in {"calc_silver", "calc_silver_again", "calc_silver_sprint07"} /\ ~ret.raised =>
        /\ ret.val.rec_max_total =
               compute_recommended_max_total(
                   ret.val.quantity * ret.val.oz_per_coin * SPOT_PRICE * PAWN_PAYOUT_PCT,
                   MIN_MARGIN_PCT)
        /\ ProfitAtRecMaxNonNegative(ret.val)

\* C24: the key comes from the item identity, else from the URL without its
\* query string, else from the lower-cased title: two listings with the same
\* item identity get the same key whatever their URLs and titles, two without
\* item identity whose URLs differ only in the query string get the same key,
\* and two with neither whose titles differ only in case and outer blanks
\* get the same key
C24_DedupeKey ==
    call.op \in {"_dedupe_key_from_listing", "get_listing_key"} =>
        LET a == call.a
            b == call.b
        IN  /\ a.item_id # None /\ a.item_id = b.item_id => ret.val[1] = ret.val[2]
            /\ ( /\ a.item_id = None /\ b.item_id = None
                 /\ GetAttrUrl(a) # None /\ GetAttrUrl(b) # None
                 /\ Val(GetAttrUrl(a)).base = Val(GetAttrUrl(b)).base )
               => ret.val[1] = ret.val[2]
            /\ ( /\ a.item_id = None /\ b.item_id = None
                 /\ GetAttrUrl(a) = None /\ GetAttrUrl(b) = None
                 /\ StripLower(a.title) = StripLower(b.title) )
               => ret.val[1] = ret.val[2]

\* the patterns that match a title
Matching(title) == {i \in 1..Len(PatternMatches(title)) : PatternMatches(title)[i] # None}

\* the number captured by the first pattern that matches
FirstCaptured(title) ==
    Val(PatternMatches(title)[CHOOSE i \in Matching(title) : \A j \in Matching(title) : i <= j])

\* C26: the first pattern that matches decides: its number is returned when
\* it is in the accepted range (2..600) and 1 is returned otherwise; no
\* later pattern is consulted.  Without a match the result is 1.
C26_FirstMatchDecides ==
    call.op = "extract_quantity_from_title" =>
        ret.val = IF Matching(call.title) = {} THEN 1
                  ELSE IF /\ 1 < FirstCaptured(call.title)
                          /\ FirstCaptured(call.title) <= MAX_TITLE_QTY
                  THEN FirstCaptured(call.title)
                  ELSE 1

\* the listings of a scan that pass every capture gate and map to key
Candidates(listings, key) ==
    { listings[i] : i \in { j \in 1..Len(listings) :
          /\ ~CaptureGated(listings[j])
          /\ StripTitle(listings[j].title) = key
          /\ _is_ema_eligible(listings[j].qty, listings[j].bids, listings[j].title) } }

\* the candidates with the most bids and, among those, the lowest price
BestCandidates(cands) ==
    { a \in cands : \A b \in cands :
          \/ a.bids > b.bids
          \/ (a.bids = b.bids /\ Val(a.total_price) <= Val(b.total_price)) }

\* entry[SAMPLES] of a key, 0 without an entry
SamplesOf(s, key) == IF key \in DOMAIN s THEN s[key][SAMPLES] ELSE 0

\* C27: in one scan every key gets at most one capture (samples grows by at
\* most 1), and the listing captured for a key is the candidate with the
\* most bids, the lower price deciding a tie
C27_OneBestCapturePerKey ==
    call.op = "capture_ema_updates" =>
        \A key \in DOMAIN ret.val :
            /\ SamplesOf(ret.val, key) <= SamplesOf(call.store, key) + 1
            /\ Candidates(call.listings, key) # {} =>
                   \E best \in BestCandidates(Candidates(call.listings, key)) :
                       ret.val[key] = _update_ema_entry(StoreGet(call.store, key),
                                                        Bumped(Val(best.total_price)),
                                                        best.bids, EMA_ALPHA)

\* the first half alone: samples grows by at most 1 per key and scan
C27_AtMostOneCapture ==
    call.op = "capture_ema_updates" =>
        \A key \in DOMAIN ret.val :
            SamplesOf(ret.val, key) <= SamplesOf(call.store, key) + 1

\* the titles with a word of PROS_HIGH_GRADE_KEYWORDS
HighGradeTitles == {TITLE_GRADED}

\* the Category-3 reason is among the reasons
HasCat3Reason(reasons) ==
    \E i \in 1..Len(reasons) : reasons[i] = "premium-terms-priced-like-raw"

\* the minutes the listing of the call has left on the clock of the call, if
\* known, are at most PROS_CAT3_MAX_MINUTES
EndsWithinCat3Window ==
    LET mins == _minutes_left(AtClock(call.listing, now))
    IN  mins # None /\ Val(mins) <= PROS_CAT3_MAX_MINUTES

\* C28: score_prospect appends "premium-terms-priced-like-raw" exactly when
\* no hard gate fired, the title has a high-grade keyword, total_price is at
\* most fmv_floor * (1 + tolerance) and the ending-soon requirement is
\* disabled or the minutes remaining are known and within the window; and
\* evaluate_listings makes a listing with that reason a prospect when its
\* score reaches PROS_MIN_SCORE (and its total is within PROS_MAX_TOTAL),
\* whatever its dealer margin
C28_Cat3Override ==
    /\ call.op \in {"score_prospect", "score_prospect_again"} =>
           ( HasCat3Reason(ret.val.reasons) <=>
                 /\ ~AnchorMissing
                 /\ call.listing.title \notin DisqualifyTitles
                 /\ call.listing.title \in HighGradeTitles
                 /\ 100 * Val(call.listing.total_price)
                        <= (100 + PROS_CAT3_MISPRICE_TOL_PCT) * Val(call.fmv_floor)
                 /\ (~PROS_CAT3_REQUIRE_ENDING_SOON \/ EndsWithinCat3Window) )
    /\ EvaluateReturned =>
           \A i \in 1..Len(ret.val) :
               LET e  == ret.val[i]
                   ps == ScoreOf(e, call.bonus)
               IN  ( /\ HasCat3Reason(ps.reasons)
                     /\ ps.score >= PROS_MIN_SCORE
                     /\ Val(e.listing.total_price) <= PROS_MAX_TOTAL )
                   => e.is_prospect

\* evaluate_listings returned a prospect that carries the Category-3 reason
\* and whose dealer margin is below PROS_MIN_DEALER_MARGIN_PCT
C28_Witness ==
    /\ EvaluateReturned
    /\ \E i \in 1..Len(ret.val) :
           /\ ret.val[i].is_prospect
           /\ HasCat3Reason(ScoreOf(ret.val[i], call.bonus).reasons)
           /\ ~RatioAtLeast(Val(ret.val[i].silver_calc.dealer_margin_pct),
                            PROS_MIN_DEALER_MARGIN_PCT)

-----------------------------------------------------------------------------
(* Properties of the order of the steps of a cycle (Spec) *)

\* the benchmark key of an evaluated listing with an identity
HitKey(e) ==
    _make_key(Val(detect_coin_identity(e.listing.title))[1],
              Val(detect_coin_identity(e.listing.title))[2],
              Val(detect_coin_identity(e.listing.title))[3])

\* the key has its first sample, captured in the running cycle from lst
FirstCapturedFrom(lst, key) ==
    /\ key \in DOMAIN store
    /\ store[key][SAMPLES] = 1
    /\ store[key][LAST_UPDATED] = now - 1
    /\ key \in DOMAIN CaptureLoop(filtered, NoUpdates, {})
    /\ CaptureLoop(filtered, NoUpdates, {})[key] = <<lst.item_price, lst.bids>>

\* C29: when the listings of a cycle are evaluated, the captures of the
\* cycle are in price_store.json (the file holds what the cycle holds in
\* memory), every FMV floor is the EMA of that store, for a key first
\* captured in this cycle from the listing itself it is the listing's own
\* price bumped by 8%, and the evaluation writes neither file
C29_EvaluateSeesCaptures ==
    [][(pc = "cycle_evaluate" /\ pc' = "cycle_split") =>
          /\ load_store(priceFile) = [raised |-> FALSE, store |-> store]
          /\ UNCHANGED <<priceFile, seenFile, store>>
          /\ \A i \in 1..Len(hits') :
                 detect_coin_identity(hits'[i].listing.title) # None =>
                     /\ hits'[i].silver_calc.fmv_floor =
                            lookup_ema(store, HitKey(hits'[i]))
                     /\ FirstCapturedFrom(hits'[i].listing, HitKey(hits'[i])) =>
                            hits'[i].silver_calc.fmv_floor =
                                Some(Round2(Bumped(hits'[i].listing.item_price)))]_vars

\* a hit whose FMV floor is its own bumped price, captured in this cycle
C29_Witness ==
    /\ pc = "cycle_split"
    /\ \E i \in 1..Len(hits) :
           /\ detect_coin_identity(hits[i].listing.title) # None
           /\ FirstCapturedFrom(hits[i].listing, HitKey(hits[i]))
           /\ hits[i].silver_calc.fmv_floor = Some(Round2(Bumped(hits[i].listing.item_price)))

\* the keys handed to the notifier by the step
Offered == {k \in DOMAIN notified' : k \notin DOMAIN notified \/ notified'[k] > notified[k]}

\* C30: when new hits are handed to the notifier the merged seen set has
\* been written and holds their keys, whatever becomes of the send; and no
\* key handed to the notifier was handed to it in an earlier cycle
C30_SeenBeforeNotify ==
    [][Offered # {} =>
          /\ pc = "cycle_save_seen"
          /\ seenFile' = save_seen_hits(merged)
          /\ Offered \subseteq load_seen_hits(seenFile').keys
          /\ \A k \in Offered : k \notin DOMAIN notified]_vars

\* the first half alone: the seen set written before the hand-over holds
\* every key handed over
C30_SeenWrittenFirst ==
    [][Offered # {} =>
          /\ pc = "cycle_save_seen"
          /\ seenFile' = save_seen_hits(merged)
          /\ Offered \subseteq load_seen_hits(seenFile').keys]_vars

-----------------------------------------------------------------------------
(* Properties of two interleaved cycles (SpecRace) *)

\* both cycles have returned
BothDone == \A p \in Procs : pc[p] = "done"

\* price_store.json holds fewer samples than the cycles have added
SampleLost == TotalSamples(load_store(priceFile).store) < nUpd

\* seen_hits.json lacks a key that a completed save_seen_hits wrote
SeenKeyLost == ~(persistedSeen \subseteq load_seen_hits(seenFile).keys)

\* the same key was handed to the notifier by both cycles
AlertedTwice == \E k \in DOMAIN notified : notified[k] > 1

\* C25: without a lock the interleaved load -> compute -> save of two
\* cycles loses an update; with a lock held from each store's load to its
\* save, once both cycles have returned no sample and no seen key is lost
\* and no key was alerted twice
C25_MutexKeepsUpdates ==
    mutex /\ BothDone => ~SampleLost /\ ~SeenKeyLost /\ ~AlertedTwice

\* without the lock: both cycles captured a sample, one of the two is gone,
\* and both cycles were handed the same key
C25_Witness ==
    ~mutex /\ BothDone /\ nUpd = 2 /\ SampleLost /\ AlertedTwice

====
